---- MODULE Spec2Model ----
(***************************************************************************)
(* dBwatch animation core: the range classifier, the transition resolver,  *)
(* the sustained-state tracker (animationState) and the animation          *)
(* controller (onReading and the playback sequences it starts), modelled   *)
(* from src/src/animations/model.js and src/src/animations/controller.js,  *)
(* with the pageshow reload of src/src/animations/bootstrap.js and the     *)
(* Start and Stop buttons, audio loop and gear icon of the app module.     *)
(*                                                                         *)
(* A loudness reading is a record [finite, n]: Num(n) is the number n and  *)
(* NaN stands for every non-finite or missing input.  JavaScript's null is *)
(* Null for a range, NoTime for a timestamp and NoTransition for a         *)
(* transition plan.                                                        *)
(***************************************************************************)
EXTENDS Integers, Sequences, FiniteSets, TLC

(***************************************************************************)
(* Bounds of the model.                                                    *)
(***************************************************************************)
\* readings fed to onReading in one behaviour
MaxReadings == 3
\* readings fed to onReading in one behaviour of the specifications with
\* rejected loads, fairness or sustained loud readings (SpecReject,
\* SpecStall, SpecFair, SpecLong)
MaxShortReadings == 2
\* clock advances in one behaviour
MaxTicks == 2
\* calls of the tracker's update and reset in one behaviour of SpecTracker
MaxCalls == 5
\* player.load calls that are rejected in one behaviour of SpecReject
MaxRejects == 1
\* calls of the pure functions in one behaviour of SpecPure
MaxPure == 1
\* pageshow events after the first one in one behaviour
MaxPageShows == 1
\* clicks on Start and Stop and switch, slider, visibility and unload events
\* in one behaviour of SpecClick
MaxUserEvents == 3
\* dialog and gear events in one behaviour of SpecGear
MaxAppEvents == 5
\* the loudness values the pure functions are applied to: MinDb..MaxDb
MinDb == 0
MaxDb == 125

(***************************************************************************)
(* model.js: static configuration.                                         *)
(***************************************************************************)
Null == "null"
NoTime == -1

Num(n) == [finite |-> TRUE, n |-> n]
NaN == [finite |-> FALSE, n |-> 0]

STATE_SEQUENCE == <<"S1", "S2", "S3", "SF">>
DEFAULT_TRANSITION_DURATION == 2000
\* the app module: minimum time between Start/Stop clicks, the interval
\* between two readings shown and given to the controller, and the delay
\* after which the gear icon hides
MIN_CLICK_INTERVAL == 500
DB_READING_UPDATE_INTERVAL == 2000
GEAR_HIDE_DELAY == 2000
\* SF_TIMEOUT_MS (the prefix SF_ is reserved in TLA+)
SFTIMEOUT_MS == 10000

\* mutation of RangeTest: the upper limits are included
RangeTestClosed(key, v) ==
    CASE key = "S1" -> v <= 75
      [] key = "S2" -> v >= 75 /\ v <= 90
      [] key = "S3" -> v >= 90
      [] OTHER -> FALSE

\* mutation of RangeTest: the lower limit of S3 is excluded
RangeTestAbove(key, v) ==
    CASE key = "S1" -> v < 75
      [] key = "S2" -> v >= 75 /\ v < 90
      [] key = "S3" -> v > 90
      [] OTHER -> FALSE

\* ranges[key].test(v); SF has no entry in `ranges`
RangeTest(key, v) ==
    CASE key = "S1" -> v < 75
      [] key = "S2" -> v >= 75 /\ v < 90
      [] key = "S3" -> v >= 90
      [] OTHER -> FALSE

\* files.state
FilesState ==
    [S1 |-> [file |-> "./media/state_1.json", mode |-> "forward", loop |-> TRUE],
     S2 |-> [file |-> "./media/state_2.json", mode |-> "forward", loop |-> TRUE],
     S3 |-> [file |-> "./media/state_3.json", mode |-> "forward", loop |-> TRUE],
     SF |-> [file |-> "./media/state_final.json", mode |-> "forward", loop |-> TRUE]]

\* files.transition
FilesTransition ==
    [S1_S2 |-> [file |-> "./media/transition_1_2.json", durationMs |-> 700],
     S2_S3 |-> [file |-> "./media/transition_2_3.json", durationMs |-> 467]]

\* the value null where a transition plan is expected
NoTransition ==
    [key |-> "", direction |-> "steady", file |-> "", durationMs |-> 0, mode |-> ""]

\* the value null where a steady-state descriptor is expected
NoStateConfig == [file |-> "", mode |-> "", loop |-> FALSE]

(***************************************************************************)
(* model.js: pure functions.                                               *)
(***************************************************************************)
\* Array.prototype.indexOf on STATE_SEQUENCE: 0-based, -1 when absent
IndexOf(range) ==
    IF \E i \in 1..Len(STATE_SEQUENCE) : STATE_SEQUENCE[i] = range
    THEN (CHOOSE i \in 1..Len(STATE_SEQUENCE) : STATE_SEQUENCE[i] = range) - 1
    ELSE -1

\* Number(dbValue), replaced by 0 when not finite
NormalizeValue(dbValue) == IF dbValue.finite THEN dbValue.n ELSE 0

RECURSIVE ClassifyFrom(_, _)
ClassifyFrom(i, value) ==
    IF i > Len(STATE_SEQUENCE) THEN STATE_SEQUENCE[Len(STATE_SEQUENCE)]
    ELSE IF RangeTest(STATE_SEQUENCE[i], value) THEN STATE_SEQUENCE[i]
    ELSE ClassifyFrom(i + 1, value)

classify(dbValue) == ClassifyFrom(1, NormalizeValue(dbValue))

getStateConfig(range) ==
    IF range \in DOMAIN FilesState THEN FilesState[range] ELSE NoStateConfig

getRangeDirection(prevRange, nextRange) ==
    IF prevRange = Null \/ nextRange = Null \/ prevRange = nextRange THEN "steady"
    ELSE IF IndexOf(prevRange) = -1 \/ IndexOf(nextRange) = -1 THEN "steady"
    ELSE IF IndexOf(nextRange) > IndexOf(prevRange) THEN "up"
    ELSE IF IndexOf(nextRange) < IndexOf(prevRange) THEN "down"
    ELSE "steady"

Abs(x) == IF x < 0 THEN -x ELSE x

\* `${startRange}_${endRange}`
TransitionKey(startRange, endRange) == startRange \o "_" \o endRange

\* mutation of DurationOf: the configured duration is ignored
DurationOfDefault(base) == DEFAULT_TRANSITION_DURATION

\* base.durationMs ?? DEFAULT_TRANSITION_DURATION
DurationOf(base) ==
    IF "durationMs" \in DOMAIN base THEN base.durationMs
    ELSE DEFAULT_TRANSITION_DURATION

\* mutation of resolveTransition: no adjacency test, a jump gets the clip of
\* its first hop
resolveTransitionFirstHop(prevRange, nextRange) ==
    LET direction == getRangeDirection(prevRange, nextRange)
        prevIndex == IndexOf(prevRange)
        hop == STATE_SEQUENCE[(IF direction = "up" THEN prevIndex + 1
                               ELSE prevIndex - 1) + 1]
        startRange == IF direction = "up" THEN prevRange ELSE hop
        endRange == IF direction = "up" THEN hop ELSE prevRange
        key == TransitionKey(startRange, endRange)
    IN  IF direction = "steady" THEN NoTransition
        ELSE IF key \notin DOMAIN FilesTransition THEN NoTransition
        ELSE [key |-> key,
              direction |-> direction,
              file |-> FilesTransition[key].file,
              durationMs |-> DurationOf(FilesTransition[key]),
              mode |-> IF direction = "up" THEN "forward" ELSE "reverse"]

resolveTransition(prevRange, nextRange) ==
    LET direction == getRangeDirection(prevRange, nextRange)
        prevIndex == IndexOf(prevRange)
        nextIndex == IndexOf(nextRange)
        startRange == IF direction = "up" THEN prevRange ELSE nextRange
        endRange == IF direction = "up" THEN nextRange ELSE prevRange
        key == TransitionKey(startRange, endRange)
    IN  IF direction = "steady" THEN NoTransition
        ELSE IF prevIndex = -1 \/ nextIndex = -1 THEN NoTransition
        ELSE IF Abs(prevIndex - nextIndex) # 1 THEN NoTransition
        ELSE IF key \notin DOMAIN FilesTransition THEN NoTransition
        ELSE [key |-> key,
              direction |-> direction,
              file |-> FilesTransition[key].file,
              durationMs |-> DurationOf(FilesTransition[key]),
              mode |-> IF direction = "up" THEN "forward" ELSE "reverse"]

\* mutation of PathFrom: the loop ends before it pushes the last range
RECURSIVE PathFromOpen(_, _, _)
PathFromOpen(i, step, nextIndex) ==
    IF i = nextIndex THEN <<>>
    ELSE <<STATE_SEQUENCE[i + 1]>> \o PathFromOpen(i + step, step, nextIndex)

RECURSIVE PathFrom(_, _, _)
PathFrom(i, step, nextIndex) ==
    IF i = nextIndex THEN <<STATE_SEQUENCE[i + 1]>>
    ELSE <<STATE_SEQUENCE[i + 1]>> \o PathFrom(i + step, step, nextIndex)

(***************************************************************************)
(* The five-range model (STATE_SEQUENCE S1..S5): its ranges and classify.  *)
(***************************************************************************)
STATE_SEQUENCE_FIVE == <<"S1", "S2", "S3", "S4", "S5">>

RangeTestFive(key, v) ==
    CASE key = "S1" -> v < 70
      [] key = "S2" -> v >= 70 /\ v < 85
      [] key = "S3" -> v >= 85 /\ v < 100
      [] key = "S4" -> v >= 100 /\ v < 120
      [] key = "S5" -> v >= 120
      [] OTHER -> FALSE

\* Number.isFinite(dbValue) ? dbValue : 0
NormalizeValueFive(dbValue) == IF dbValue.finite THEN dbValue.n ELSE 0

RECURSIVE ClassifyFromFive(_, _)
ClassifyFromFive(i, value) ==
    IF i > Len(STATE_SEQUENCE_FIVE) THEN STATE_SEQUENCE_FIVE[Len(STATE_SEQUENCE_FIVE)]
    ELSE IF RangeTestFive(STATE_SEQUENCE_FIVE[i], value) THEN STATE_SEQUENCE_FIVE[i]
    ELSE ClassifyFromFive(i + 1, value)

classifyFive(dbValue) == ClassifyFromFive(1, NormalizeValueFive(dbValue))

\* mutation of buildRangePath: the two end points without the ranges between
buildRangePathEnds(prevRange, nextRange) ==
    IF prevRange = Null \/ prevRange = nextRange THEN <<nextRange>>
    ELSE <<prevRange, nextRange>>

buildRangePath(prevRange, nextRange) ==
    LET prevIndex == IndexOf(prevRange)
        nextIndex == IndexOf(nextRange)
    IN  IF prevRange = Null \/ nextRange = Null
        THEN IF nextRange # Null THEN <<nextRange>> ELSE <<>>
        ELSE IF prevIndex = -1 \/ nextIndex = -1 THEN <<nextRange>>
        ELSE IF prevIndex = nextIndex THEN <<nextRange>>
        ELSE PathFrom(prevIndex, IF nextIndex > prevIndex THEN 1 ELSE -1, nextIndex)

(***************************************************************************)
(* model.js: animationState.update as a function of the tracker's fields.  *)
(* The result carries the new fields and the returned {range, transition}. *)
(***************************************************************************)
TrackerResult(cr, sf, s3, range, transition) ==
    [currentRange |-> cr, inSF |-> sf, s3EnteredAt |-> s3,
     range |-> range, transition |-> transition]

\* mutation of ExitTransition: the descriptor is returned as for the way up
ExitTransitionForward ==
    [key |-> "S2_S3",
     direction |-> "up",
     file |-> FilesTransition["S2_S3"].file,
     durationMs |-> DurationOf(FilesTransition["S2_S3"]),
     mode |-> "forward"]

\* mutation of ExitTransition: the generic resolver applied to the current
\* range SF, which has no transition to S2
ExitTransitionGeneric == resolveTransition("SF", "S2")

\* the SF exit branch (inSF and baseRange = 'S2')
ExitTransition ==
    IF "S2_S3" \in DOMAIN FilesTransition
    THEN [key |-> "S2_S3",
          direction |-> "down",
          file |-> FilesTransition["S2_S3"].file,
          durationMs |-> DurationOf(FilesTransition["S2_S3"]),
          mode |-> "reverse"]
    ELSE resolveTransition("S3", "S2")

\* mutation of DwellElapsed: the dwell must exceed the timeout
DwellElapsedStrict(enteredAt, t) == t - enteredAt > SFTIMEOUT_MS

\* now - s3EnteredAt >= SFTIMEOUT_MS
DwellElapsed(enteredAt, t) == t - enteredAt >= SFTIMEOUT_MS

\* mutation of IsExitRange: every reading below S3 leaves the final state
IsExitRangeBelowS3(baseRange) == baseRange # "S3"

\* baseRange === 'S2', the test that leaves the final state
IsExitRange(baseRange) == baseRange = "S2"

\* mutation of update: below S3 the new range is recorded before the
\* transition is resolved
updateRecordsFirst(cr, sf, s3, dbValue, t) ==
    LET baseRange == classify(dbValue)
        enteredAt == IF s3 = NoTime THEN t ELSE s3
    IN  IF sf
        THEN IF IsExitRange(baseRange)
             THEN TrackerResult("S2", FALSE, NoTime, "S2", ExitTransition)
             ELSE TrackerResult("SF", sf, s3, "SF", NoTransition)
        ELSE IF baseRange = "S3"
        THEN IF DwellElapsed(enteredAt, t)
             THEN TrackerResult("SF", TRUE, NoTime, "SF", NoTransition)
             ELSE TrackerResult("S3", sf, enteredAt, "S3",
                                resolveTransition(cr, "S3"))
        ELSE TrackerResult(baseRange, sf, NoTime, baseRange,
                           resolveTransition(baseRange, baseRange))

\* mutation of update: the dwell branch is taken by every reading of S2 or
\* above, not only by those of S3
updateDwellFromS2(cr, sf, s3, dbValue, t) ==
    LET baseRange == classify(dbValue)
        enteredAt == IF s3 = NoTime THEN t ELSE s3
    IN  IF sf
        THEN IF IsExitRange(baseRange)
             THEN TrackerResult("S2", FALSE, NoTime, "S2", ExitTransition)
             ELSE TrackerResult("SF", sf, s3, "SF", NoTransition)
        ELSE IF baseRange \in {"S2", "S3"}
        THEN IF DwellElapsed(enteredAt, t)
             THEN TrackerResult("SF", TRUE, NoTime, "SF", NoTransition)
             ELSE TrackerResult("S3", sf, enteredAt, "S3",
                                resolveTransition(cr, "S3"))
        ELSE TrackerResult(baseRange, sf, NoTime, baseRange,
                           resolveTransition(cr, baseRange))

\* mutation of update: a reading below S3 does not clear the S3 timer
updateKeepsTimer(cr, sf, s3, dbValue, t) ==
    LET baseRange == classify(dbValue)
        enteredAt == IF s3 = NoTime THEN t ELSE s3
    IN  IF sf
        THEN IF IsExitRange(baseRange)
             THEN TrackerResult("S2", FALSE, NoTime, "S2", ExitTransition)
             ELSE TrackerResult("SF", sf, s3, "SF", NoTransition)
        ELSE IF baseRange = "S3"
        THEN IF DwellElapsed(enteredAt, t)
             THEN TrackerResult("SF", TRUE, NoTime, "SF", NoTransition)
             ELSE TrackerResult("S3", sf, enteredAt, "S3",
                                resolveTransition(cr, "S3"))
        ELSE TrackerResult(baseRange, sf, s3, baseRange,
                           resolveTransition(cr, baseRange))

\* mutation of update: the S3 timer is cleared neither on entering nor on
\* leaving the final state
updateKeepsDwellThroughSF(cr, sf, s3, dbValue, t) ==
    LET baseRange == classify(dbValue)
        enteredAt == IF s3 = NoTime THEN t ELSE s3
    IN  IF sf
        THEN IF IsExitRange(baseRange)
             THEN TrackerResult("S2", FALSE, s3, "S2", ExitTransition)
             ELSE TrackerResult("SF", sf, s3, "SF", NoTransition)
        ELSE IF baseRange = "S3"
        THEN IF DwellElapsed(enteredAt, t)
             THEN TrackerResult("SF", TRUE, enteredAt, "SF", NoTransition)
             ELSE TrackerResult("S3", sf, enteredAt, "S3",
                                resolveTransition(cr, "S3"))
        ELSE TrackerResult(baseRange, sf, NoTime, baseRange,
                           resolveTransition(cr, baseRange))

\* mutation of update: leaving the final state does not write currentRange
updateExitKeepsRange(cr, sf, s3, dbValue, t) ==
    LET baseRange == classify(dbValue)
        enteredAt == IF s3 = NoTime THEN t ELSE s3
    IN  IF sf
        THEN IF IsExitRange(baseRange)
             THEN TrackerResult(cr, FALSE, NoTime, "S2", ExitTransition)
             ELSE TrackerResult("SF", sf, s3, "SF", NoTransition)
        ELSE IF baseRange = "S3"
        THEN IF DwellElapsed(enteredAt, t)
             THEN TrackerResult("SF", TRUE, NoTime, "SF", NoTransition)
             ELSE TrackerResult("S3", sf, enteredAt, "S3",
                                resolveTransition(cr, "S3"))
        ELSE TrackerResult(baseRange, sf, NoTime, baseRange,
                           resolveTransition(cr, baseRange))

update(cr, sf, s3, dbValue, t) ==
    LET baseRange == classify(dbValue)
        enteredAt == IF s3 = NoTime THEN t ELSE s3
    IN  IF sf
        THEN IF IsExitRange(baseRange)
             THEN TrackerResult("S2", FALSE, NoTime, "S2", ExitTransition)
             ELSE TrackerResult("SF", sf, s3, "SF", NoTransition)
        ELSE IF baseRange = "S3"
        THEN IF DwellElapsed(enteredAt, t)
             THEN TrackerResult("SF", TRUE, NoTime, "SF", NoTransition)
             ELSE TrackerResult("S3", sf, enteredAt, "S3",
                                resolveTransition(cr, "S3"))
        ELSE TrackerResult(baseRange, sf, NoTime, baseRange,
                           resolveTransition(cr, baseRange))

(***************************************************************************)
(* Background color mapper (getBackgroundColor and its helpers).  A hex    *)
(* color string '#rrggbb' is the sequence of its six hexadecimal digits.   *)
(***************************************************************************)
COLOR_KEYFRAMES ==
    <<[dB |-> 76, hex |-> <<10, 4, 15, 1, 2, 12>>],
      [dB |-> 85, hex |-> <<15, 1, 14, 2, 2, 12>>],
      [dB |-> 95, hex |-> <<14, 15, 8, 14, 2, 14>>],
      [dB |-> 105, hex |-> <<14, 14, 5, 11, 2, 13>>]>>

\* parseInt(pair, 16) of each of the three digit pairs
hexToRgb(hex) ==
    [r |-> 16 * hex[1] + hex[2], g |-> 16 * hex[3] + hex[4], b |-> 16 * hex[5] + hex[6]]

\* a channel value is the exact fraction num / den (den > 0)
Frac(num, den) == [num |-> num, den |-> den]

\* mutation of MathRound: the fraction is cut off (Math.floor)
MathFloor(q) == q.num \div q.den

\* Math.round: the nearest integer, halves rounded up
MathRound(q) == (2 * q.num + q.den) \div (2 * q.den)

\* Math.round(value).toString(16), padded to two digits
toHex(q) == <<MathRound(q) \div 16, MathRound(q) % 16>>

rgbToHex(rgb) == toHex(rgb.r) \o toHex(rgb.g) \o toHex(rgb.b)

\* start + (end - start) * factor, with factor = position / range
lerp(start, end, position, range) ==
    Frac(start * range + (end - start) * position, range)

interpolateColor(colorA, colorB, position, range) ==
    [r |-> lerp(colorA.r, colorB.r, position, range),
     g |-> lerp(colorA.g, colorB.g, position, range),
     b |-> lerp(colorA.b, colorB.b, position, range)]

\* Number(dbValue), replaced by 76 when not finite
ColorValue(dbValue) == IF dbValue.finite THEN dbValue.n ELSE 76

RECURSIVE ColorFrom(_, _)
ColorFrom(i, value) ==
    IF i > Len(COLOR_KEYFRAMES) - 1 THEN COLOR_KEYFRAMES[1].hex
    ELSE IF value >= COLOR_KEYFRAMES[i].dB /\ value < COLOR_KEYFRAMES[i + 1].dB
    THEN rgbToHex(interpolateColor(hexToRgb(COLOR_KEYFRAMES[i].hex),
                                   hexToRgb(COLOR_KEYFRAMES[i + 1].hex),
                                   value - COLOR_KEYFRAMES[i].dB,
                                   COLOR_KEYFRAMES[i + 1].dB - COLOR_KEYFRAMES[i].dB))
    ELSE ColorFrom(i + 1, value)

\* mutation of getBackgroundColor: the two clamps are missing
getBackgroundColorUnclamped(dbValue) == ColorFrom(1, ColorValue(dbValue))

getBackgroundColor(dbValue) ==
    LET value == ColorValue(dbValue)
    IN  IF value <= COLOR_KEYFRAMES[1].dB THEN COLOR_KEYFRAMES[1].hex
        ELSE IF value >= COLOR_KEYFRAMES[Len(COLOR_KEYFRAMES)].dB
        THEN COLOR_KEYFRAMES[Len(COLOR_KEYFRAMES)].hex
        ELSE ColorFrom(1, value)

(***************************************************************************)
(* controller.js: state.                                                   *)
(*   currentRange, inSF, s3EnteredAt  the fields of animationState         *)
(*   previousRange, sequenceCounter   the controller's module variables    *)
(*   canvas, playerInstance           bootstrap.js: whether the page has   *)
(*                                    the canvas, and whether ensurePlayer *)
(*                                    holds a player it built              *)
(*   playerReady                      isPlayerReady(): the exported player,*)
(*                                    bound once at module load            *)
(*   seq[t]                           the suspended onReading call that    *)
(*                                    owns token t: where it waits (pc)    *)
(*                                    and its locals                       *)
(*   now, ticks                       Date.now() and the clock advances    *)
(*   bodyColor                        document.body's background color     *)
(*   history                          the readings received, the           *)
(*                                    player.load calls issued and the     *)
(*                                    waits elapsed, in order              *)
(***************************************************************************)
VARIABLES currentRange, inSF, s3EnteredAt, previousRange, sequenceCounter,
          canvas, playerInstance, playerReady, seq, now, ticks, bodyColor, history,
          \* the app module that feeds the controller: the click guard and
          \* the audio engine state of startListening and stopListening,
          \* where a startListening call waits (startPc)
          isProcessingClick, lastStartStopClick, isListening, mediaStream,
          audioContext, startPc, lastDbReadingUpdate,
          \* the audio loop: simModeToggle.checked, simSlider.value, whether
          \* the analyser is there, whether an animation frame is requested,
          \* document.hidden and the two flags of the visibilitychange
          \* listener, the calls of restartMicrophone and of that listener
          \* that wait, and the number of switch, slider, visibility and
          \* unload events so far
          simModeChecked, simSliderValue, analyser, animationId,
          documentHidden, wasListeningBeforeHidden, audioContextWasSuspended,
          pending, switches,
          \* the controls dialog and the gear icon: controlsDialog.open,
          \* the class gear--hidden, the pending hide timer's deadline
          dialogOpen, gearHidden, gearHideTimer

tracker == <<currentRange, inSF, s3EnteredAt>>
bootstrap == <<canvas, playerInstance, playerReady>>
clickGuard == <<isProcessingClick, lastStartStopClick, isListening, mediaStream,
                audioContext, startPc, lastDbReadingUpdate>>
audioLoop == <<simModeChecked, simSliderValue, analyser, animationId,
               documentHidden, wasListeningBeforeHidden,
               audioContextWasSuspended, pending, switches>>
gear == <<dialogOpen, gearHidden, gearHideTimer>>
app == <<clickGuard, audioLoop, gear>>
vars == <<currentRange, inSF, s3EnteredAt, previousRange, sequenceCounter,
          bootstrap, seq, now, ticks, bodyColor, history, app>>

\* the readings onReading draws from: one value inside each range
Values == {Num(60), Num(80), Num(95)}

\* the clock advances by a configured clip duration or by the SF timeout
TickSteps == {FilesTransition[k].durationMs : k \in DOMAIN FilesTransition}
                \cup {SFTIMEOUT_MS}

Tokens == 1..MaxReadings

IdleSeq ==
    [pc |-> "idle", nextRange |-> Null, oldPrev |-> Null, direct |-> FALSE,
     path |-> <<>>, i |-> 0, transition |-> NoTransition, deadline |-> 0]

NumReadings == Cardinality({k \in 1..Len(history) : history[k].e = "reading"})

TrackerState(cr, sf, s3) == [currentRange |-> cr, inSF |-> sf, s3EnteredAt |-> s3]

\* the tokens of the sequences in flight
Live == {t \in Tokens : seq[t].pc \notin {"idle", "done"}}

\* onReading(v) was called: the tracker before and after it, what
\* animationState.update returned (u), previousRange at the call, the
\* sequences in flight at the call and the token issued (0 when none)
ReadingEvent(v, token, u) ==
    [e |-> "reading", token |-> token, v |-> v, at |-> now,
     before |-> TrackerState(currentRange, inSF, s3EnteredAt),
     after |-> TrackerState(u.currentRange, u.inSF, u.s3EnteredAt),
     range |-> u.range, transition |-> u.transition,
     prev |-> previousRange, live |-> Live]

\* what onReading sees of the tracker when it returns before calling it
NoUpdate ==
    TrackerResult(currentRange, inSF, s3EnteredAt, Null, NoTransition)

\* player.load({src, autoplay: true, loop, mode}) issued by the sequence
\* `token` while sequenceCounter is `counter`
LoadEvent(token, clip, counter) ==
    [e |-> "load", token |-> token, src |-> clip.src, mode |-> clip.mode,
     loop |-> clip.loop, counter |-> counter]

WaitEvent(token, ms) == [e |-> "wait", token |-> token, ms |-> ms]

(***************************************************************************)
(* controller.js: the synchronous stretches of a playback sequence.  A     *)
(* step is what a stretch ends with: "load" (player.load was called and    *)
(* the sequence awaits it in `pc`), "delay" (the sequence awaits a timer)  *)
(* or "return" (the awaited function returned to onReading).               *)
(***************************************************************************)
Clip(src, mode, loop) == [src |-> src, mode |-> mode, loop |-> loop]

ReturnStep ==
    [k |-> "return", pc |-> "done", i |-> 0, clip |-> Clip("", "", FALSE),
     transition |-> NoTransition]

\* an error reached the catch block of onReading: the call ends there
AbortStep == [ReturnStep EXCEPT !.k = "abort"]

LoadStep(pc, i, clip, transition) ==
    [k |-> "load", pc |-> pc, i |-> i, clip |-> clip, transition |-> transition]

DelayStep(pc, i, transition) ==
    [k |-> "delay", pc |-> pc, i |-> i, clip |-> Clip("", "", FALSE),
     transition |-> transition]

\* mutation of isPlayerReady: the player is taken to be ready
isPlayerReadyAlways == TRUE

isPlayerReady == playerReady

\* loadClip calls player.load unless the player is not ready or src is empty
loadClip(clip) == isPlayerReady /\ clip.src # ""

\* mutation of IsStale: playSteady without its token check
IsStaleNever(sequenceId, counter) == FALSE

\* the token check of playSteady
IsStale(sequenceId, counter) == sequenceId # counter

playSteady(range, sequenceId, counter) ==
    LET stateConfig == getStateConfig(range)
        clip == Clip(stateConfig.file, stateConfig.mode, stateConfig.loop)
    IN  IF IsStale(sequenceId, counter) THEN ReturnStep
        ELSE IF stateConfig = NoStateConfig THEN ReturnStep
        ELSE IF loadClip(clip) THEN LoadStep("loadSteady", 0, clip, NoTransition)
        ELSE ReturnStep

\* mutation of AfterPathLoad: the token check after the load is inverted
\* (=== in place of !==)
AfterPathLoadInverted(i, transition, sequenceId, counter) ==
    IF sequenceId = counter THEN ReturnStep
    ELSE DelayStep("pathDelay", i, transition)

\* playTransitionSequence after `await loadClip(...)` of the pair at index i
AfterPathLoad(i, transition, sequenceId, counter) ==
    IF sequenceId # counter THEN ReturnStep
    ELSE DelayStep("pathDelay", i, transition)

\* mutation of IsStaleInLoop: the loop without its token check
IsStaleInLoopNever(sequenceId, counter) == FALSE

\* the token check at the head of the loop of playTransitionSequence
IsStaleInLoop(sequenceId, counter) == sequenceId # counter

\* mutation of PathLoop: a pair without a transition ends the sequence
\* (return in place of continue)
RECURSIVE PathLoopStopsAtGap(_, _, _, _)
PathLoopStopsAtGap(path, i, sequenceId, counter) ==
    IF ~(i < Len(path) - 1)
    THEN playSteady(path[Len(path)], sequenceId, counter)
    ELSE IF IsStaleInLoop(sequenceId, counter) THEN ReturnStep
    ELSE LET transition == resolveTransition(path[i + 1], path[i + 2])
             clip == Clip(transition.file, transition.mode, FALSE)
         IN  IF transition = NoTransition
             THEN ReturnStep
             ELSE IF loadClip(clip)
             THEN LoadStep("loadPathTransition", i, clip, transition)
             ELSE AfterPathLoad(i, transition, sequenceId, counter)

\* the for loop of playTransitionSequence entered at 0-based index i, up to
\* its next await
RECURSIVE PathLoop(_, _, _, _)
PathLoop(path, i, sequenceId, counter) ==
    IF ~(i < Len(path) - 1)
    THEN playSteady(path[Len(path)], sequenceId, counter)
    ELSE IF IsStaleInLoop(sequenceId, counter) THEN ReturnStep
    ELSE LET transition == resolveTransition(path[i + 1], path[i + 2])
             clip == Clip(transition.file, transition.mode, FALSE)
         IN  IF transition = NoTransition
             THEN PathLoop(path, i + 1, sequenceId, counter)
             ELSE IF loadClip(clip)
             THEN LoadStep("loadPathTransition", i, clip, transition)
             ELSE AfterPathLoad(i, transition, sequenceId, counter)

playTransitionSequence(path, sequenceId, counter) ==
    IF Len(path) = 0 THEN ReturnStep
    ELSE IF Len(path) = 1 THEN playSteady(path[1], sequenceId, counter)
    ELSE PathLoop(path, 0, sequenceId, counter)

\* delay(ms): setTimeout(resolve, Math.max(0, ms))
delay(ms) == now + (IF ms > 0 THEN ms ELSE 0)

(***************************************************************************)
(* controller.js: actions.  An action is one uninterrupted run of the      *)
(* event loop: an onReading call up to its first pending await, or the     *)
(* continuation of a suspended call from the await that settled up to the  *)
(* next pending one.                                                       *)
(***************************************************************************)
\* the state once the modules are loaded, `origin` milliseconds after the time
\* origin of the clock
InitAt(origin) ==
    /\ currentRange = Null
    /\ inSF = FALSE
    /\ s3EnteredAt = NoTime
    /\ previousRange = classify(Num(0))
    /\ sequenceCounter = 0
    /\ canvas \in BOOLEAN
    /\ playerInstance \in {built \in BOOLEAN : built => canvas}
    /\ playerReady = playerInstance
    /\ seq = [t \in Tokens |-> IdleSeq]
    /\ now = origin
    /\ ticks = 0
    /\ bodyColor = <<>>
    /\ history = <<>>
    /\ isProcessingClick = FALSE
    /\ lastStartStopClick = 0
    /\ isListening = FALSE
    /\ mediaStream = FALSE
    /\ audioContext = Null
    /\ startPc = "idle"
    /\ lastDbReadingUpdate = 0
    /\ simModeChecked = FALSE
    /\ simSliderValue = Num(0)
    /\ analyser = FALSE
    /\ animationId = FALSE
    /\ documentHidden = FALSE
    /\ wasListeningBeforeHidden = FALSE
    /\ audioContextWasSuspended = FALSE
    /\ pending = <<>>
    /\ switches = 0
    /\ dialogOpen = FALSE
    /\ gearHidden = FALSE
    /\ gearHideTimer = origin + GEAR_HIDE_DELAY

Init == InitAt(0)

\* the sequence `t`, with locals `r`, reaches `step` after `events`; a
\* "return" is followed by onReading's `previousRange = nextRange`
Proceed(t, r, step, events, counter) ==
    /\ history' = history \o events \o
                    (IF step.k = "load"
                     THEN <<LoadEvent(t, step.clip, counter)>> ELSE <<>>)
    /\ seq' = [seq EXCEPT ![t] =
                 CASE step.k = "load" ->
                        [r EXCEPT !.pc = step.pc, !.i = step.i,
                                  !.transition = step.transition]
                   [] step.k = "delay" ->
                        [r EXCEPT !.pc = step.pc, !.i = step.i,
                                  !.transition = step.transition,
                                  !.deadline = delay(step.transition.durationMs)]
                   [] OTHER -> [r EXCEPT !.pc = "done"]]
    /\ previousRange' = IF step.k = "return" THEN r.nextRange ELSE previousRange

\* mutation of FastPath: the fast path is missing
FastPathNever(nextRange, transition) == FALSE

\* mutation of FastPath: || in place of &&
FastPathEither(nextRange, transition) ==
    nextRange = previousRange \/ transition = NoTransition

\* the steady-state fast path of onReading
FastPath(nextRange, transition) ==
    nextRange = previousRange /\ transition = NoTransition

\* the first stretch of the sequence onReading starts with token sequenceId
FirstStep(r, sequenceId) ==
    IF r.direct
    THEN IF loadClip(Clip(r.transition.file, r.transition.mode, FALSE))
         THEN LoadStep("loadTransition", 0,
                       Clip(r.transition.file, r.transition.mode, FALSE),
                       r.transition)
         ELSE DelayStep("delay", 0, r.transition)
    ELSE playTransitionSequence(r.path, sequenceId, sequenceId)

\* mutation of NextToken: the counter is not incremented once it is set
NextTokenReused(counter) == IF counter = 0 THEN 1 ELSE counter

\* ++sequenceCounter
NextToken(counter) == counter + 1

\* onReading(dbValue) up to its first pending await, called by a handler
\* that has logged `events` before the call
onReadingAfter(events, dbValue) ==
    /\ NumReadings < MaxReadings
    /\ bodyColor' = getBackgroundColor(dbValue)
    /\ IF ~isPlayerReady
       THEN /\ history' = history \o events \o
                             <<ReadingEvent(dbValue, 0, NoUpdate)>>
            /\ UNCHANGED <<tracker, previousRange, sequenceCounter, seq>>
       ELSE LET u == update(currentRange, inSF, s3EnteredAt, dbValue, now)
                sequenceId == NextToken(sequenceCounter)
                r == [IdleSeq EXCEPT
                        !.nextRange = u.range,
                        !.oldPrev = previousRange,
                        !.direct = (u.transition # NoTransition),
                        !.transition = u.transition,
                        !.path = IF u.transition # NoTransition THEN <<>>
                                 ELSE buildRangePath(previousRange, u.range)]
            IN  /\ currentRange' = u.currentRange
                /\ inSF' = u.inSF
                /\ s3EnteredAt' = u.s3EnteredAt
                /\ IF u.range = Null \/ FastPath(u.range, u.transition)
                   THEN /\ history' = history \o events \o
                                         <<ReadingEvent(dbValue, 0, u)>>
                        /\ UNCHANGED <<previousRange, sequenceCounter, seq>>
                   ELSE /\ sequenceCounter' = sequenceId
                        /\ Proceed(sequenceId, r, FirstStep(r, sequenceId),
                                   events \o
                                     <<ReadingEvent(dbValue, sequenceId, u)>>,
                                   sequenceId)

\* onReading(dbValue) called on its own
onReading(dbValue) ==
    /\ onReadingAfter(<<>>, dbValue)
    /\ UNCHANGED <<bootstrap, app, now, ticks>>

OnReading == \E dbValue \in Values : onReading(dbValue)

\* a reading in a behaviour of at most MaxShortReadings readings
OnShortReading ==
    /\ NumReadings < MaxShortReadings
    /\ \E dbValue \in Values : onReading(dbValue)

\* mutation of AfterLoad: the direct branch does not wait for the
\* transition's duration before the steady clip
AfterLoadNoDelay(t) ==
    CASE seq[t].pc = "loadTransition" ->
           playSteady(seq[t].nextRange, t, sequenceCounter)
      [] seq[t].pc = "loadPathTransition" ->
           AfterPathLoad(seq[t].i, seq[t].transition, t, sequenceCounter)
      [] OTHER -> ReturnStep

\* what follows `await loadClip(...)` in the sequence t once loadClip returns
AfterLoad(t) ==
    CASE seq[t].pc = "loadTransition" ->
           DelayStep("delay", 0, seq[t].transition)
      [] seq[t].pc = "loadPathTransition" ->
           AfterPathLoad(seq[t].i, seq[t].transition, t, sequenceCounter)
      [] OTHER -> ReturnStep

\* mutation of LoadSettled: the sequences share one promise chain, a load
\* is awaited only after every load issued by an earlier sequence has settled
LoadSettledInOrder(t) ==
    /\ \A a \in 1..(t - 1) :
          seq[a].pc \notin {"loadTransition", "loadPathTransition", "loadSteady"}
    /\ seq[t].pc \in {"loadTransition", "loadPathTransition", "loadSteady"}
    /\ Proceed(t, seq[t], AfterLoad(t), <<>>, sequenceCounter)
    /\ UNCHANGED <<tracker, sequenceCounter, bootstrap, app, now, ticks, bodyColor>>

\* the promise of the player.load call that sequence t awaits settles
\* (resolved, or rejected and caught by loadClip)
LoadSettled(t) ==
    /\ seq[t].pc \in {"loadTransition", "loadPathTransition", "loadSteady"}
    /\ Proceed(t, seq[t], AfterLoad(t), <<>>, sequenceCounter)
    /\ UNCHANGED <<tracker, sequenceCounter, bootstrap, app, now, ticks, bodyColor>>

\* the timer of the delay that sequence t awaits fires
TimerFired(t) ==
    /\ seq[t].pc \in {"delay", "pathDelay"}
    /\ now >= seq[t].deadline
    /\ Proceed(t, seq[t],
               IF seq[t].pc = "delay"
               THEN playSteady(seq[t].nextRange, t, sequenceCounter)
               ELSE PathLoop(seq[t].path, seq[t].i + 1, t, sequenceCounter),
               <<WaitEvent(t, seq[t].transition.durationMs)>>, sequenceCounter)
    /\ UNCHANGED <<tracker, sequenceCounter, bootstrap, app, now, ticks, bodyColor>>

Settle == \E t \in Tokens : LoadSettled(t)

Timer == \E t \in Tokens : TimerFired(t)

\* time passes
Tick ==
    /\ ticks < MaxTicks
    /\ \E d \in TickSteps : now' = now + d
    /\ ticks' = ticks + 1
    /\ UNCHANGED <<tracker, previousRange, sequenceCounter, bootstrap, app, seq,
                   bodyColor, history>>

\* bootstrap.js loads this clip, the steady clip of S1, at module load and
\* again at each pageshow
INITIAL_STATE_SRC == "./media/state_1.json"

\* the player.load calls made by reloadInitialState: they belong to no
\* playback sequence (token 0)
NumPageShows ==
    Cardinality({k \in 1..Len(history) :
                    history[k].e = "load" /\ history[k].token = 0})

\* bootstrap.js, ensurePlayer: the player it holds, or with a canvas a new
\* DotLottie, which the constructor builds or fails to build (it throws, and
\* playerInstance stays null)
ensurePlayer(built) == IF playerInstance \/ ~canvas THEN playerInstance ELSE built

\* bootstrap.js, reloadInitialState: with the player ensurePlayer returns,
\* player.load of the initial clip, looping, forward; without one it returns.
\* The player the controller imports was bound at module load: a player
\* built here does not make isPlayerReady() true.  Nothing of the
\* controller or of the tracker is touched.
reloadInitialState ==
    \E built \in BOOLEAN :
       /\ ensurePlayer(built)
       /\ playerInstance' = ensurePlayer(built)
       /\ history' = Append(history,
                             LoadEvent(0, Clip(INITIAL_STATE_SRC, "forward", TRUE),
                                       sequenceCounter))
       /\ UNCHANGED <<tracker, previousRange, sequenceCounter, canvas,
                      playerReady, app, seq, now, ticks, bodyColor>>

\* the window's pageshow listener of bootstrap.js, registered when the page
\* has the canvas: the page is shown again (restored from the back/forward
\* cache) with the module state kept
PageShow ==
    /\ NumPageShows < MaxPageShows
    /\ canvas
    /\ reloadInitialState

Next == OnReading \/ Settle \/ Timer \/ Tick \/ PageShow

Spec == Init /\ [][Next]_vars

(***************************************************************************)
(* controller.js: the player rejects a load.  loadClip catches the error,  *)
(* logs it with console.warn and returns; the history records the warning. *)
(***************************************************************************)
WarnEvent(token) == [e |-> "warn", token |-> token]

NumRejects == Cardinality({k \in 1..Len(history) : history[k].e = "warn"})

\* mutation of AfterRejection: loadClip without its try/catch, the error
\* reaches the catch block of onReading
AfterRejectionUncaught(step) == AbortStep

\* loadClip returns normally from its catch block: the caller goes on as
\* after a load that succeeded
AfterRejection(step) == step

\* the promise of the player.load call that sequence t awaits is rejected
LoadRejected(t) ==
    /\ NumRejects < MaxRejects
    /\ seq[t].pc \in {"loadTransition", "loadPathTransition", "loadSteady"}
    /\ Proceed(t, seq[t], AfterRejection(AfterLoad(t)), <<WarnEvent(t)>>,
               sequenceCounter)
    /\ UNCHANGED <<tracker, sequenceCounter, bootstrap, app, now, ticks, bodyColor>>

Reject == \E t \in Tokens : LoadRejected(t)

NextReject == OnShortReading \/ Settle \/ Reject \/ Timer \/ Tick \/ PageShow

SpecReject == Init /\ [][NextReject]_vars

(***************************************************************************)
(* controller.js: scheduling.  A timer set by delay fires once its time    *)
(* has come, and time does come: Advance moves the clock to the earliest   *)
(* pending deadline.  A player.load promise settles when the player        *)
(* settles it; nothing in the controller makes it settle.                  *)
(***************************************************************************)
Waiting == {t \in Tokens : seq[t].pc \in {"delay", "pathDelay"}}

Advance ==
    /\ \E t \in Waiting :
          /\ seq[t].deadline > now
          /\ \A o \in Waiting : seq[o].deadline > now => seq[t].deadline <= seq[o].deadline
          /\ now' = seq[t].deadline
    /\ UNCHANGED <<tracker, previousRange, sequenceCounter, bootstrap, app, seq,
                   ticks, bodyColor, history>>

NextStall == OnShortReading \/ Settle \/ Timer \/ Advance \/ PageShow

\* the timers are fair; the loads are not: a load may stay pending for ever
SpecStall ==
    /\ Init
    /\ [][NextStall]_vars
    /\ WF_vars(Timer \/ Advance)

\* the player settles every load and every timer fires
SpecFair ==
    /\ Init
    /\ [][NextStall]_vars
    /\ WF_vars(Settle)
    /\ WF_vars(Timer \/ Advance)

\* the controller under sustained loud readings: every reading is 95, the
\* clock advances to the pending deadlines and by the SF timeout
LoudValues == {Num(95)}

OnLoudReading ==
    /\ NumReadings < MaxShortReadings
    /\ \E dbValue \in LoudValues : onReading(dbValue)

Dwell ==
    /\ ticks < MaxTicks
    /\ now' = now + SFTIMEOUT_MS
    /\ ticks' = ticks + 1
    /\ UNCHANGED <<tracker, previousRange, sequenceCounter, bootstrap, app, seq,
                   bodyColor, history>>

NextLong == OnLoudReading \/ Settle \/ Timer \/ Dwell \/ Advance \/ PageShow

SpecLong == Init /\ [][NextLong]_vars

(***************************************************************************)
(* model.js: the tracker used on its own.  animationState is an exported   *)
(* object: update and reset are called here in any order, with the clock   *)
(* as `now`.                                                               *)
(***************************************************************************)
\* the readings update draws from: a non-finite one (classified S1) and the
\* lowest values of S2 and of S3
TrackerValues == {NaN, Num(75), Num(90)}

NumCalls == Len(history)

UpdateEvent(v, u) ==
    [e |-> "update", v |-> v, at |-> now,
     before |-> TrackerState(currentRange, inSF, s3EnteredAt),
     after |-> TrackerState(u.currentRange, u.inSF, u.s3EnteredAt),
     range |-> u.range, transition |-> u.transition]

ResetEvent == [e |-> "reset", at |-> now]

TrackerInit == Init /\ ~playerReady

TrackerUpdate ==
    /\ NumCalls < MaxCalls
    /\ \E dbValue \in TrackerValues :
          LET u == update(currentRange, inSF, s3EnteredAt, dbValue, now)
          IN  /\ currentRange' = u.currentRange
              /\ inSF' = u.inSF
              /\ s3EnteredAt' = u.s3EnteredAt
              /\ history' = Append(history, UpdateEvent(dbValue, u))
    /\ UNCHANGED <<previousRange, sequenceCounter, bootstrap, app, seq, now, ticks,
                   bodyColor>>

\* animationState.reset()
TrackerReset ==
    /\ NumCalls < MaxCalls
    /\ currentRange' = Null
    /\ inSF' = FALSE
    /\ s3EnteredAt' = NoTime
    /\ history' = Append(history, ResetEvent)
    /\ UNCHANGED <<previousRange, sequenceCounter, bootstrap, app, seq, now, ticks,
                   bodyColor>>

TrackerNext == TrackerUpdate \/ TrackerReset \/ Tick

SpecTracker == TrackerInit /\ [][TrackerNext]_vars

(***************************************************************************)
(* model.js: the pure functions called on their own.  The history records  *)
(* each call with its arguments and its result.                            *)
(***************************************************************************)
\* the loudness inputs: every whole number of MinDb..MaxDb, a negative
\* number and a non-finite or missing value
DbInputs == {Num(n) : n \in MinDb..MaxDb} \cup {Num(-1), NaN}

NumPure == Len(history)

ClassifyEvent(v) ==
    [e |-> "classify", v |-> v, range |-> classify(v), five |-> classifyFive(v)]

PureInit == Init /\ ~playerReady

PureFrame ==
    UNCHANGED <<tracker, previousRange, sequenceCounter, bootstrap, app, seq, now,
                ticks, bodyColor>>

ClassifyCall ==
    /\ NumPure < MaxPure
    /\ \E v \in DbInputs : history' = Append(history, ClassifyEvent(v))
    /\ PureFrame

\* the range arguments: the ranges of STATE_SEQUENCE, null and a name that
\* is not in STATE_SEQUENCE
RangeInputs == {STATE_SEQUENCE[i] : i \in 1..Len(STATE_SEQUENCE)} \cup {Null, "S4"}

ResolveEvent(a, b) ==
    [e |-> "resolve", a |-> a, b |-> b, result |-> resolveTransition(a, b)]

ResolveCall ==
    /\ NumPure < MaxPure
    /\ \E a, b \in RangeInputs : history' = Append(history, ResolveEvent(a, b))
    /\ PureFrame

PathEvent(a, b) ==
    [e |-> "path", a |-> a, b |-> b, result |-> buildRangePath(a, b)]

PathCall ==
    /\ NumPure < MaxPure
    /\ \E a, b \in RangeInputs : history' = Append(history, PathEvent(a, b))
    /\ PureFrame

ColorEvent(v) == [e |-> "color", v |-> v, hex |-> getBackgroundColor(v)]

ColorCall ==
    /\ NumPure < MaxPure
    /\ \E v \in DbInputs : history' = Append(history, ColorEvent(v))
    /\ PureFrame

\* the states animationState is in between calls: after reset, in S1, S2 or
\* S3 (the timer set), and in the final state
TrackerInputs ==
    {TrackerState(r, FALSE, NoTime) : r \in {Null, "S1", "S2"}}
        \cup {TrackerState("S3", FALSE, 0), TrackerState("SF", TRUE, NoTime)}

\* the values of `now` passed to update
ClockInputs == {0, SFTIMEOUT_MS - 1, SFTIMEOUT_MS}

TrackEvent(s, v, t) ==
    [e |-> "track", before |-> s, v |-> v, at |-> t,
     result |-> update(s.currentRange, s.inSF, s.s3EnteredAt, v, t)]

\* animationState.update(dbValue, now) on a tracker in the state s
UpdateCall ==
    /\ NumPure < MaxPure
    /\ \E s \in TrackerInputs, v \in DbInputs, t \in ClockInputs :
          history' = Append(history, TrackEvent(s, v, t))
    /\ PureFrame

PureNext == ClassifyCall \/ ResolveCall \/ PathCall \/ ColorCall \/ UpdateCall

SpecPure == PureInit /\ [][PureNext]_vars

(***************************************************************************)
(* Vocabulary of the properties: what the history says.                    *)
(***************************************************************************)
Ranges == {STATE_SEQUENCE[i] : i \in 1..Len(STATE_SEQUENCE)}

IsLoad(ev) == ev.e = "load"
IsReading(ev) == ev.e = "reading"
IsWait(ev) == ev.e = "wait"
\* a player.load call made by a playback sequence of the controller
IsSequenceLoad(ev) == IsLoad(ev) /\ ev.token # 0

Loads == SelectSeq(history, IsLoad)
Readings == SelectSeq(history, IsReading)

\* the load plays the transition clip that leads from range a to range b
PlaysTransition(ev, a, b) ==
    /\ resolveTransition(a, b) # NoTransition
    /\ ev.src = resolveTransition(a, b).file
    /\ ev.mode = resolveTransition(a, b).mode

IsTransitionLoad(ev) == \E a, b \in Ranges : PlaysTransition(ev, a, b)

\* the load plays the steady clip of range r
PlaysSteady(ev, r) == ev.src = FilesState[r].file

SteadyRangeOf(src) == CHOOSE r \in Ranges : FilesState[r].file = src

\* the visual state a clip starts from and the one it ends at
StartOf(ev) ==
    IF IsTransitionLoad(ev)
    THEN CHOOSE a \in Ranges : \E b \in Ranges : PlaysTransition(ev, a, b)
    ELSE SteadyRangeOf(ev.src)

EndOf(ev) ==
    IF IsTransitionLoad(ev)
    THEN CHOOSE b \in Ranges : \E a \in Ranges : PlaysTransition(ev, a, b)
    ELSE SteadyRangeOf(ev.src)

\* the visual state the player is left at by the loads before the k-th
ShownBefore(k) ==
    IF k = 1 THEN SteadyRangeOf(INITIAL_STATE_SRC) ELSE EndOf(Loads[k - 1])

AllSettled == Live = {}

\* the sequence with token t has a transition step before its steady clip
MultiStep(t) ==
    \/ seq[t].direct
    \/ \E i \in 1..(Len(seq[t].path) - 1) :
          resolveTransition(seq[t].path[i], seq[t].path[i + 1]) # NoTransition

\* the position in the history of the reading that was issued token t
ReadingOfToken(t) ==
    CHOOSE k \in 1..Len(history) : IsReading(history[k]) /\ history[k].token = t

IsLastReading(k) ==
    /\ IsReading(history[k])
    /\ \A j \in (k + 1)..Len(history) : ~IsReading(history[j])

(***************************************************************************)
(* Properties.                                                             *)
(***************************************************************************)

\* C1: the clip loads walk contiguous states: every transition clip load
\* X->Y is issued when the load issued before it (the initial steady clip of
\* S1 when there is none) ended at X.
C1_ContiguousLoads ==
    \A k \in 1..Len(Loads) :
        IsTransitionLoad(Loads[k]) => StartOf(Loads[k]) = ShownBefore(k)

\* C2: when the last reading B arrived while the multi-step sequence of a
\* reading A of another range was in flight, then once every sequence has
\* finished the last clip loaded is the steady clip of B's range.
C2_LastReadingWins ==
    \A k \in 1..Len(history) :
        ( /\ IsLastReading(k)
          /\ AllSettled
          /\ \E a \in history[k].live :
                /\ MultiStep(a)
                /\ classify(history[ReadingOfToken(a)].v) # classify(history[k].v) )
        => /\ Loads # <<>>
           /\ PlaysSteady(Loads[Len(Loads)], history[k].range)

\* C3: every player.load made by a sequence is issued while the sequence's
\* token equals sequenceCounter; a superseded sequence loads nothing more.
C3_LoadsOnlyWhileLatest ==
    \A k \in 1..Len(history) :
        IsSequenceLoad(history[k]) => history[k].token = history[k].counter

\* C3 witness: the wait of a superseded sequence has elapsed (a newer token
\* was issued before it) and the sequence has ended.
C3_Witness ==
    \E k \in 1..Len(history) :
        /\ IsWait(history[k])
        /\ \E j \in 1..(k - 1) :
              IsReading(history[j]) /\ history[j].token > history[k].token
        /\ seq[history[k].token].pc = "done"
        /\ Loads # <<>>

\* C4: a step in which a superseded sequence ends leaves previousRange as it
\* was: only a sequence that still owns the latest token writes it.
C4_StaleNeverAdvancesPrevious ==
    [][\A t \in Tokens :
          ( /\ seq[t].pc \notin {"idle", "done"}
            /\ seq'[t].pc = "done"
            /\ t # sequenceCounter )
          => previousRange' = previousRange]_vars

\* the clips loaded by the sequence with token t, in order
ClipOf(ev) == Clip(ev.src, ev.mode, ev.loop)
LoadsOf(t) == SelectSeq(history, LAMBDA ev : IsLoad(ev) /\ ev.token = t)
ClipsOf(t) == [k \in 1..Len(LoadsOf(t)) |-> ClipOf(LoadsOf(t)[k])]

SteadyClip(r) == Clip(FilesState[r].file, "forward", TRUE)
TransitionClip(a, b) ==
    Clip(resolveTransition(a, b).file, resolveTransition(a, b).mode, FALSE)

\* every range from a to b in STATE_SEQUENCE order, both included
RangesBetween(a, b) ==
    [k \in 1..(Abs(IndexOf(a) - IndexOf(b)) + 1) |->
        STATE_SEQUENCE[(IF IndexOf(b) >= IndexOf(a)
                        THEN IndexOf(a) + (k - 1)
                        ELSE IndexOf(a) - (k - 1)) + 1]]

\* the transition clip of every consecutive pair of `path` that has one, from
\* the i-th pair on, then the steady clip of the last range
RECURSIVE PlanFrom(_, _)
PlanFrom(path, i) ==
    IF i >= Len(path) THEN <<SteadyClip(path[Len(path)])>>
    ELSE (IF resolveTransition(path[i], path[i + 1]) # NoTransition
          THEN <<TransitionClip(path[i], path[i + 1])>> ELSE <<>>)
         \o PlanFrom(path, i + 1)

\* the sequence with token t has ended and was never superseded
CompletedAsLatest(t) == seq[t].pc = "done" /\ t = sequenceCounter

FarJump(t) == Abs(IndexOf(seq[t].oldPrev) - IndexOf(seq[t].nextRange)) >= 2

\* C5 as claimed: a reading whose range is two or more positions away from
\* previousRange, not superseded, loads the transition clip of every
\* intermediate adjacent pair in order and then the destination's steady clip.
C5_JumpFromPreviousRange ==
    \A t \in Tokens :
        (CompletedAsLatest(t) /\ FarJump(t))
        => ClipsOf(t) = PlanFrom(RangesBetween(seq[t].oldPrev, seq[t].nextRange), 1)

\* C5 amended: the same, for the readings for which the tracker resolved no
\* transition of its own (the path branch of onReading).
C5_JumpWithoutDirectTransition ==
    \A t \in Tokens :
        (CompletedAsLatest(t) /\ FarJump(t) /\ ~seq[t].direct)
        => ClipsOf(t) = PlanFrom(RangesBetween(seq[t].oldPrev, seq[t].nextRange), 1)

\* C5 witness: a jump from S1 to S3 has played both transitions and state_3.
C5_Witness ==
    \E t \in Tokens :
        /\ CompletedAsLatest(t) /\ ~seq[t].direct
        /\ seq[t].oldPrev = "S1" /\ seq[t].nextRange = "S3"
        /\ Len(LoadsOf(t)) = 3

\* the scenario of C6: a ready player, the readings 60, 80, 95, the last one
\* arriving while the sequence of 80 is in flight and before any wait elapsed
Scenario60_80_95 ==
    /\ playerReady
    /\ Len(Readings) = 3
    /\ Readings[1].v = Num(60) /\ Readings[2].v = Num(80) /\ Readings[3].v = Num(95)
    /\ Readings[3].live = {Readings[2].token}
    /\ \A k \in 1..Len(history) :
          IsWait(history[k]) => \E j \in 1..(k - 1) : history[j] = Readings[3]

\* the position of the first load of clip c in the history (0 when none)
FirstLoadOf(c) ==
    IF \E k \in 1..Len(history) : IsLoad(history[k]) /\ ClipOf(history[k]) = c
    THEN CHOOSE k \in 1..Len(history) :
            /\ IsLoad(history[k]) /\ ClipOf(history[k]) = c
            /\ \A j \in 1..(k - 1) : ~(IsLoad(history[j]) /\ ClipOf(history[j]) = c)
    ELSE 0

\* the clips the playback sequences loaded, in the order of the calls
SequenceLoads == SelectSeq(history, IsSequenceLoad)
LoadedClips == [k \in 1..Len(SequenceLoads) |-> ClipOf(SequenceLoads[k])]

\* C6: in the scenario 60, 80, 95 the loads are transition(S1->S2, forward),
\* transition(S2->S3, forward), steady(S3); the second transition is loaded
\* only after the wait of the first one, and steady(S2) is never loaded.
C6_SecondTransitionAfterFirstWait ==
    Scenario60_80_95 =>
        /\ \A k \in 1..Len(history) :
              (IsLoad(history[k]) /\ ClipOf(history[k]) = TransitionClip("S2", "S3"))
              => \E j \in 1..(k - 1) :
                    IsWait(history[j]) /\ history[j].token = Readings[2].token
        /\ FirstLoadOf(SteadyClip("S2")) = 0
        /\ AllSettled =>
              LoadedClips = <<TransitionClip("S1", "S2"), TransitionClip("S2", "S3"),
                              SteadyClip("S3")>>

\* s is an initial part of q
IsPrefix(s, q) == Len(s) <= Len(q) /\ \A k \in 1..Len(s) : s[k] = q[k]

\* C6 amended: in the scenario 60, 80, 95 the loads are transition(S1->S2,
\* forward), then transition(S2->S3, forward) issued by onReading(95) itself
\* with no wait before it, then, after the wait of the second transition,
\* steady(S3); steady(S2) is never loaded.
C6_SecondTransitionAtOnce ==
    Scenario60_80_95 =>
        /\ \A k \in 1..Len(history) :
              history[k] = Readings[3] =>
                 /\ k < Len(history)
                 /\ IsLoad(history[k + 1])
                 /\ history[k + 1].token = Readings[3].token
                 /\ ClipOf(history[k + 1]) = TransitionClip("S2", "S3")
                 /\ \A j \in 1..k : ~IsWait(history[j])
        /\ \A k \in 1..Len(history) :
              (IsLoad(history[k]) /\ ClipOf(history[k]) = SteadyClip("S3"))
              => \E j \in 1..(k - 1) :
                    /\ IsWait(history[j])
                    /\ history[j].token = Readings[3].token
                    /\ history[j].ms = 467
        /\ FirstLoadOf(SteadyClip("S2")) = 0
        /\ IsPrefix(LoadedClips,
                    <<TransitionClip("S1", "S2"), TransitionClip("S2", "S3"),
                      SteadyClip("S3")>>)
        /\ AllSettled => Len(LoadedClips) = 3

\* C6 witness: the scenario has run to its end, both waits have elapsed and
\* three clips were loaded.
C6_Witness ==
    /\ Scenario60_80_95
    /\ AllSettled
    /\ Len(LoadedClips) = 3
    /\ Cardinality({k \in 1..Len(history) : IsWait(history[k])}) = 2

\* the consecutive readings i, i + 1 are the same value v, fed twice in a
\* row once everything had settled after an earlier reading of v
TwiceAfterSettling(i) ==
    /\ i > 1 /\ i < Len(Readings)
    /\ Readings[i - 1].v = Readings[i].v
    /\ Readings[i + 1].v = Readings[i].v
    /\ Readings[i].live = {}

\* the loads issued since the i-th reading
LoadsSince(i) ==
    {k \in 1..Len(history) :
        /\ IsSequenceLoad(history[k])
        /\ \E j \in 1..(k - 1) : history[j] = Readings[i]}

\* C7: idempotence: once everything has settled after a reading of v, two
\* calls onReading(v) in a row issue at most one player.load in total.
C7_Idempotent ==
    playerReady =>
        \A i \in 1..Len(Readings) :
            TwiceAfterSettling(i) => Cardinality(LoadsSince(i)) <= 1

IsUpdate(ev) == ev.e = "update"

\* the k-th event and every event back to the j-th are updates classified S3
RunOfS3(j, k) ==
    \A m \in j..k : IsUpdate(history[m]) /\ classify(history[m].v) = "S3"

\* the first update of the uninterrupted run of S3 updates that ends at k
RunStart(k) ==
    CHOOSE j \in 1..k : RunOfS3(j, k) /\ (j = 1 \/ ~RunOfS3(j - 1, k))

FinalState == TrackerState("SF", TRUE, NoTime)

\* C8: outside the final state, an update classified S3 that comes at least
\* SF_TIMEOUT_MS after the first update of its uninterrupted run of S3
\* updates enters the final state and returns range SF with no transition;
\* one that comes earlier does not escalate.
C8_EscalatesAfterTimeout ==
    \A k \in 1..Len(history) :
        (IsUpdate(history[k]) /\ ~history[k].before.inSF
           /\ classify(history[k].v) = "S3")
        => IF history[k].at - history[RunStart(k)].at >= 10000
           THEN /\ history[k].after = FinalState
                /\ history[k].range = "SF"
                /\ history[k].transition = NoTransition
           ELSE /\ ~history[k].after.inSF
                /\ history[k].range = "S3"

\* C8 witness: an update exactly SF_TIMEOUT_MS after the start of its run has
\* escalated, and an earlier update of the same run had not.
C8_Witness ==
    \E k \in 2..Len(history) :
        /\ IsUpdate(history[k]) /\ ~history[k].before.inSF
        /\ classify(history[k].v) = "S3"
        /\ RunStart(k) < k
        /\ history[k].at - history[RunStart(k)].at = 10000
        /\ history[k].after = FinalState

\* the reading escalated the tracker into the final state
Escalating(ev) == IsReading(ev) /\ ~ev.before.inSF /\ ev.after.inSF

\* C9 as claimed: the reading that escalates the tracker, arriving when the
\* controller has settled on S3, causes no player.load call.
C9_EscalationLoadsNothing ==
    \A k \in 1..Len(history) :
        (Escalating(history[k]) /\ history[k].prev = "S3" /\ history[k].live = {})
        => \A j \in 1..Len(history) :
              IsLoad(history[j]) => history[j].token # history[k].token

\* C9 amended: the reading that escalates the tracker, arriving when the
\* controller has settled on S3 (no earlier sequence is live and
\* previousRange is S3), causes no transition clip load and exactly one load,
\* issued at once: the steady clip of SF, looping, forward.  With a
\* previousRange that a superseded sequence has set back to S2 the path is
\* [S2, S3, SF] and transition_2_3.json is loaded first: that case is not
\* part of the statement.
C9_EscalationLoadsFinalClip ==
    \A k \in 1..Len(history) :
        (Escalating(history[k]) /\ history[k].prev = "S3" /\ history[k].live = {})
        => /\ history[k].token > 0
           /\ k < Len(history)
           /\ history[k + 1] =
                 LoadEvent(history[k].token,
                           Clip("./media/state_final.json", "forward", TRUE),
                           history[k].token)
           /\ \A j \in 1..Len(history) :
                 (IsLoad(history[j]) /\ history[j].token = history[k].token)
                 => j = k + 1

\* C9 witness: the sequence of an escalating reading, started after steady(S3)
\* was loaded, has ended.
C9_Witness ==
    \E k \in 1..Len(history) :
        /\ Escalating(history[k]) /\ history[k].prev = "S3" /\ history[k].live = {}
        /\ \E j \in 1..(k - 1) : IsLoad(history[j]) /\ PlaysSteady(history[j], "S3")
        /\ seq[history[k].token].pc = "done"
        /\ previousRange = "SF"

\* C10: in the final state an update classified into any range but S2 leaves
\* the tracker as it was (inSF, currentRange SF, no dwell timer) and returns
\* no transition; an update that leaves the final state is classified S2.
C10_FinalStatePersists ==
    \A k \in 1..Len(history) :
        (IsUpdate(history[k]) /\ history[k].before.inSF)
        => /\ classify(history[k].v) # "S2" =>
                 /\ history[k].after = history[k].before
                 /\ history[k].after = FinalState
                 /\ history[k].range = "SF"
                 /\ history[k].transition = NoTransition
           /\ ~history[k].after.inSF => classify(history[k].v) = "S2"

\* C10 witness: in the final state the tracker has received a non-finite
\* reading and then a reading of S3, and is still in the final state.
C10_Witness ==
    \E k \in 1..(Len(history) - 1) :
        /\ IsUpdate(history[k]) /\ history[k].before.inSF /\ history[k].v = NaN
        /\ IsUpdate(history[k + 1]) /\ classify(history[k + 1].v) = "S3"
        /\ inSF

\* the events of the sequence with token t (its reading, loads and waits)
EventsOf(t) == SelectSeq(history, LAMBDA ev : ev.token = t)

\* the reading left the final state
Exiting(ev) == IsReading(ev) /\ ev.before.inSF /\ classify(ev.v) = "S2"

\* C11: in the final state a reading classified S2 clears the final state,
\* sets the current range to S2 and yields the S2_S3 clip in reverse mode;
\* with no later reading, the loads that follow it are exactly that clip,
\* not looping, and, after a wait of the clip's duration, steady(S2).
C11_ExitPlaysOneReverseTransition ==
    \A k \in 1..Len(history) :
        Exiting(history[k])
        => /\ history[k].after = TrackerState("S2", FALSE, NoTime)
           /\ history[k].range = "S2"
           /\ history[k].transition.key = "S2_S3"
           /\ history[k].transition.mode = "reverse"
           /\ history[k].transition.file = "./media/transition_2_3.json"
           /\ history[k].token > 0
           /\ (IsLastReading(k) /\ AllSettled)
              => /\ EventsOf(history[k].token) =
                       <<history[k],
                         LoadEvent(history[k].token,
                                   Clip("./media/transition_2_3.json", "reverse", FALSE),
                                   history[k].token),
                         WaitEvent(history[k].token, 467),
                         LoadEvent(history[k].token, SteadyClip("S2"),
                                   history[k].token)>>
                 /\ \A j \in (k + 1)..Len(history) :
                       IsSequenceLoad(history[j])
                       => history[j].token = history[k].token

\* C11 witness: the sequence of a reading of 80 that left the final state has
\* ended with steady(S2) loaded, and no reading came after it.
C11_Witness ==
    \E k \in 1..Len(history) :
        /\ Exiting(history[k]) /\ history[k].v = Num(80)
        /\ IsLastReading(k) /\ AllSettled
        /\ PlaysSteady(Loads[Len(Loads)], "S2")
        /\ previousRange = "S2"

\* C12: with a player that is not ready, a call of onReading issues no
\* player.load, starts no sequence and leaves previousRange, sequenceCounter
\* and the tracker's fields as they were; it sets the background color to the
\* color of the reading and does nothing else.
C12_UnreadyPlayerOnlyColors ==
    [][(~playerReady /\ Len(Readings') > Len(Readings))
       => /\ history' = Append(history, history'[Len(history')])
          /\ IsReading(history'[Len(history')])
          /\ history'[Len(history')].token = 0
          /\ bodyColor' = getBackgroundColor(history'[Len(history')].v)
          /\ UNCHANGED <<currentRange, inSF, s3EnteredAt, previousRange,
                         sequenceCounter, seq, now>>]_vars

\* C12 witness: a player that is not ready has received a reading of 60 and
\* then one of 95 ten seconds later; the background has the color of 95, the
\* tracker and the controller are as constructed and nothing was loaded.
C12_Witness ==
    /\ ~playerReady
    /\ Len(Readings) = 2
    /\ Readings[1].v = Num(60) /\ Readings[2].v = Num(95)
    /\ Readings[2].at >= 10000
    /\ bodyColor = COLOR_KEYFRAMES[3].hex
    /\ Loads = <<>>
    /\ previousRange = "S1" /\ sequenceCounter = 0
    /\ currentRange = Null /\ ~inSF /\ s3EnteredAt = NoTime

\* the player rejected a load of the sequence with token t
Rejected(t) == \E k \in 1..Len(history) : history[k] = WarnEvent(t)

\* the clips the sequence with token t is to load when nothing supersedes it
PlanOf(t) ==
    IF seq[t].direct
    THEN <<Clip(history[ReadingOfToken(t)].transition.file,
                history[ReadingOfToken(t)].transition.mode, FALSE),
           SteadyClip(seq[t].nextRange)>>
    ELSE PlanFrom(seq[t].path, 1)

WaitsOf(t) == SelectSeq(history, LAMBDA ev : IsWait(ev) /\ ev.token = t)

\* C13: a rejected player.load is absorbed.  A sequence that was never
\* superseded and had a load rejected has loaded exactly the clips of its
\* plan, each once (no retry), with one wait after every transition clip;
\* and a step that ends the latest sequence, after a rejection or not,
\* returns normally and writes its range to previousRange.
C13_RejectedLoadAbsorbed ==
    /\ [](\A t \in Tokens :
            (CompletedAsLatest(t) /\ Rejected(t))
            => /\ ClipsOf(t) = PlanOf(t)
               /\ Len(WaitsOf(t)) = Len(PlanOf(t)) - 1)
    /\ [][\A t \in Tokens :
            ( /\ seq[t].pc \notin {"idle", "done"}
              /\ seq'[t].pc = "done"
              /\ t = sequenceCounter )
            => previousRange' = seq[t].nextRange]_vars

\* C13 witness: the transition load of a sequence was rejected; the sequence
\* went on to its wait and its steady clip and set previousRange.
C13_Witness ==
    \E t \in Tokens :
        /\ CompletedAsLatest(t) /\ Rejected(t)
        /\ Len(LoadsOf(t)) >= 2
        /\ \E k \in 1..(Len(history) - 1) :
              /\ history[k] = WarnEvent(t)
              /\ IsWait(history[k + 1])
        /\ previousRange = seq[t].nextRange
        /\ previousRange # seq[t].oldPrev

InFlight(t) == seq[t].pc \notin {"idle", "done"}

\* the player settles every load of the sequence b
SettlesLoadsOf(b) == WF_vars(LoadSettled(b))

\* C14: a sequence B whose own loads settle ends, whatever load of another
\* sequence A stays pending for ever; when B was never superseded it has
\* then loaded every clip of its plan, its steady clip last; and no
\* sequence, A included, issues a load once a newer token exists, also when
\* its pending load settles late.
C14_StallIsLocal ==
    /\ \A b \in Tokens :
          SettlesLoadsOf(b) => (InFlight(b) ~> (seq[b].pc = "done"))
    /\ [](\A b \in Tokens : CompletedAsLatest(b) => ClipsOf(b) = PlanOf(b))
    /\ [](\A k \in 1..Len(history) :
             IsSequenceLoad(history[k])
             => \A j \in 1..(k - 1) :
                   IsReading(history[j]) => history[j].token <= history[k].token)

\* C14 witness: the first load of a sequence is still pending while a later
\* sequence with a transition has run to its end and loaded its steady clip.
C14_Witness ==
    \E a, b \in Tokens :
        /\ a < b
        /\ seq[a].pc \in {"loadTransition", "loadPathTransition"}
        /\ Len(LoadsOf(a)) = 1
        /\ CompletedAsLatest(b)
        /\ Len(LoadsOf(b)) >= 2
        /\ ClipsOf(b)[Len(ClipsOf(b))] = SteadyClip(seq[b].nextRange)

IsClassify(ev) == ev.e = "classify"

\* the ranges of the five-range model
RangesFive == {STATE_SEQUENCE_FIVE[i] : i \in 1..Len(STATE_SEQUENCE_FIVE)}

\* the value classify works on: the number itself, 0 for a non-finite input
ValueOf(v) == IF v.finite THEN v.n ELSE 0

\* C15: classify is total and single-valued.  For every input exactly one
\* range's test matches the value (0 for a non-finite or missing input) and
\* classify returns that range; the intervals are half-open: 74 is S1, 75
\* and 89 are S2, 90 is S3, and in the five-range model the limits are 70,
\* 85, 100 and 120.
C15_ClassifyPartitions ==
    \A k \in 1..Len(history) :
        IsClassify(history[k]) =>
            LET x == ValueOf(history[k].v)
            IN  /\ Cardinality({r \in Ranges : RangeTest(r, x)}) = 1
                /\ history[k].range \in Ranges
                /\ RangeTest(history[k].range, x)
                /\ history[k].range =
                      (IF x < 75 THEN "S1" ELSE IF x < 90 THEN "S2" ELSE "S3")
                /\ Cardinality({r \in RangesFive : RangeTestFive(r, x)}) = 1
                /\ history[k].five \in RangesFive
                /\ RangeTestFive(history[k].five, x)
                /\ history[k].five =
                      (IF x < 70 THEN "S1" ELSE IF x < 85 THEN "S2"
                       ELSE IF x < 100 THEN "S3" ELSE IF x < 120 THEN "S4"
                       ELSE "S5")
                /\ ~history[k].v.finite =>
                      /\ history[k].range = "S1"
                      /\ history[k].five = "S1"

\* C15 witness: classify was applied to the limit 90 of the escalation model,
\* which is also inside S3 of the five-range model.
C15_Witness ==
    \E k \in 1..Len(history) :
        /\ IsClassify(history[k])
        /\ history[k].v = Num(90)
        /\ history[k].range = "S3"
        /\ history[k].five = "S3"

IsResolve(ev) == ev.e = "resolve"

\* the 1-based position of a known range in STATE_SEQUENCE
Position(r) == CHOOSE i \in 1..Len(STATE_SEQUENCE) : STATE_SEQUENCE[i] = r

\* C16: resolveTransition(a, b) is null whenever a = b, a or b is null or not
\* a range of STATE_SEQUENCE, or the positions of a and b do not differ by
\* exactly one.
C16_ResolveNullUnlessAdjacent ==
    \A k \in 1..Len(history) :
        ( /\ IsResolve(history[k])
          /\ \/ history[k].a = history[k].b
             \/ history[k].a \notin Ranges
             \/ history[k].b \notin Ranges
             \/ Abs(Position(history[k].a) - Position(history[k].b)) # 1 )
        => history[k].result = NoTransition

\* C16 witness: resolveTransition was asked for the jump from S3 down to S1
\* and returned null.
C16_Witness ==
    \E k \in 1..Len(history) :
        /\ IsResolve(history[k])
        /\ history[k].a = "S3" /\ history[k].b = "S1"
        /\ history[k].result = NoTransition

IsPath(ev) == ev.e = "path"

\* C17: for known ranges a and b, buildRangePath(a, b) starts with a, ends
\* with b, has |position(a) - position(b)| + 1 elements and every element is
\* one position further toward b than the one before it; when a is null or
\* unknown (and b is given) the result is [b] only.
C17_PathWalksEveryRange ==
    \A k \in 1..Len(history) :
        IsPath(history[k]) =>
            LET a == history[k].a
                b == history[k].b
                path == history[k].result
            IN  /\ (a \in Ranges /\ b \in Ranges)
                   => /\ Len(path) = Abs(Position(a) - Position(b)) + 1
                      /\ path[1] = a
                      /\ path[Len(path)] = b
                      /\ \A i \in 1..(Len(path) - 1) :
                            /\ path[i] \in Ranges /\ path[i + 1] \in Ranges
                            /\ Position(path[i + 1]) - Position(path[i]) =
                                  (IF Position(b) > Position(a) THEN 1 ELSE -1)
                /\ (a \notin Ranges /\ b # Null) => path = <<b>>

\* C17 witness: the path from SF down to S1 was built: all four ranges.
C17_Witness ==
    \E k \in 1..Len(history) :
        /\ IsPath(history[k])
        /\ history[k].a = "SF" /\ history[k].b = "S1"
        /\ history[k].result = <<"SF", "S3", "S2", "S1">>

IsColor(ev) == ev.e = "color"

\* C18: getBackgroundColor returns the first keyframe's color #a4f12c for
\* every value at or below 76 and for a non-finite input, and the last
\* keyframe's color #ee5b2d for every value at or above 105.
C18_ColorClampedAtEnds ==
    \A k \in 1..Len(history) :
        IsColor(history[k]) =>
            /\ (~history[k].v.finite \/ history[k].v.n <= 76)
               => /\ history[k].hex = <<10, 4, 15, 1, 2, 12>>
                  /\ history[k].hex = COLOR_KEYFRAMES[1].hex
            /\ (history[k].v.finite /\ history[k].v.n >= 105)
               => /\ history[k].hex = <<14, 14, 5, 11, 2, 13>>
                  /\ history[k].hex = COLOR_KEYFRAMES[Len(COLOR_KEYFRAMES)].hex

\* C18 witness: the color of a value above the last keyframe (120) was
\* computed and is the last keyframe's color.
C18_Witness ==
    \E k \in 1..Len(history) :
        /\ IsColor(history[k])
        /\ history[k].v = Num(120)
        /\ history[k].hex = <<14, 14, 5, 11, 2, 13>>

\* C19: after any updates and resets the S3 timer s3EnteredAt is set only
\* while currentRange is S3 and the tracker is not in the final state; every
\* update classified into a range other than S3, and every update that
\* enters or leaves the final state, leaves the timer null.
C19_TimerOnlyWhileInS3 ==
    /\ s3EnteredAt # NoTime => (currentRange = "S3" /\ ~inSF)
    /\ \A k \in 1..Len(history) :
          IsUpdate(history[k]) =>
              /\ classify(history[k].v) # "S3"
                 => history[k].after.s3EnteredAt = NoTime
              /\ history[k].before.inSF # history[k].after.inSF
                 => history[k].after.s3EnteredAt = NoTime
              /\ history[k].after.s3EnteredAt # NoTime
                 => /\ history[k].after.currentRange = "S3"
                    /\ ~history[k].after.inSF

\* C19 witness: the tracker has entered the final state, has left it and,
\* with a new reading of S3, has its timer set again.
C19_Witness ==
    /\ s3EnteredAt # NoTime
    /\ \E j, k \in 1..Len(history) :
          /\ j < k
          /\ IsUpdate(history[j]) /\ ~history[j].before.inSF /\ history[j].after.inSF
          /\ IsUpdate(history[k]) /\ history[k].before.inSF /\ ~history[k].after.inSF

\* the update moved the tracker into the final state
Entering(ev) == IsUpdate(ev) /\ ~ev.before.inSF /\ ev.after.inSF

\* C20: the tracker enters the final state only at an update classified S3
\* whose uninterrupted run of S3 updates began, with the timer then set, at
\* least 10000 ms earlier; every call made less than 10000 ms before it is an
\* update classified S3, so a reading of S1 or S2 (or a reset) in that time
\* rules the final state out.
C20_FinalStateOnlyAfterUnbrokenDwell ==
    /\ inSF => \E k \in 1..Len(history) : Entering(history[k])
    /\ \A k \in 1..Len(history) :
          Entering(history[k]) =>
              /\ classify(history[k].v) = "S3"
              /\ history[RunStart(k)].before.s3EnteredAt = NoTime
              /\ history[RunStart(k)].after.s3EnteredAt = history[RunStart(k)].at
              /\ history[k].before.s3EnteredAt = history[RunStart(k)].at
              /\ history[k].at - history[RunStart(k)].at >= 10000
              /\ \A m \in 1..(k - 1) :
                    history[k].at - history[m].at < 10000
                    => (IsUpdate(history[m]) /\ classify(history[m].v) = "S3")

\* C20 witness: a reading of S2 interrupted a run of S3 readings; the dwell
\* restarted with the next S3 reading and the final state was entered 10000
\* ms after that one.
C20_Witness ==
    \E k \in 1..Len(history) :
        /\ Entering(history[k])
        /\ RunStart(k) > 2
        /\ IsUpdate(history[RunStart(k) - 1])
        /\ classify(history[RunStart(k) - 1].v) = "S2"
        /\ IsUpdate(history[1]) /\ classify(history[1].v) = "S3"
        /\ history[k].at - history[1].at > 10000
        /\ history[k].at - history[RunStart(k)].at = 10000

\* the lower and the higher of two known ranges, in STATE_SEQUENCE order
LowerOf(a, b) == IF Position(a) < Position(b) THEN a ELSE b
HigherOf(a, b) == IF Position(a) < Position(b) THEN b ELSE a

\* the key of the descriptor of the pair a, b in files.transition
PairKey(a, b) == LowerOf(a, b) \o "_" \o HigherOf(a, b)

\* a and b are adjacent ranges that have a transition descriptor
HasDescriptor(a, b) ==
    /\ a \in Ranges /\ b \in Ranges
    /\ Abs(Position(a) - Position(b)) = 1
    /\ PairKey(a, b) \in DOMAIN FilesTransition

\* C21: for an adjacent pair with a transition descriptor, resolveTransition
\* returns in both directions the descriptor's key and file and its duration
\* (2000 ms when the descriptor has none), with mode forward toward the
\* higher range and reverse toward the lower one.
C21_SameClipBothDirections ==
    \A k \in 1..Len(history) :
        (IsResolve(history[k]) /\ HasDescriptor(history[k].a, history[k].b))
        => LET a == history[k].a
               b == history[k].b
               base == FilesTransition[PairKey(a, b)]
               back == resolveTransition(b, a)
           IN  /\ history[k].result # NoTransition
               /\ history[k].result.key = PairKey(a, b)
               /\ history[k].result.file = base.file
               /\ history[k].result.durationMs =
                     (IF "durationMs" \in DOMAIN base THEN base.durationMs ELSE 2000)
               /\ history[k].result.mode =
                     (IF Position(b) > Position(a) THEN "forward" ELSE "reverse")
               /\ back.key = history[k].result.key
               /\ back.file = history[k].result.file
               /\ back.durationMs = history[k].result.durationMs
               /\ back.mode # history[k].result.mode

\* C21 witness: the transition from S3 down to S2 was resolved: the S2_S3
\* clip of 467 ms, in reverse.
C21_Witness ==
    \E k \in 1..Len(history) :
        /\ IsResolve(history[k])
        /\ history[k].a = "S3" /\ history[k].b = "S2"
        /\ history[k].result.key = "S2_S3"
        /\ history[k].result.file = "./media/transition_2_3.json"
        /\ history[k].result.durationMs = 467
        /\ history[k].result.mode = "reverse"

\* the path has a consecutive pair without a transition descriptor
HasGap(path) ==
    \E i \in 1..(Len(path) - 1) : resolveTransition(path[i], path[i + 1]) = NoTransition

\* the configured duration of the transition clip in file src
ClipDuration(src) ==
    FilesTransition[CHOOSE key \in DOMAIN FilesTransition :
                       FilesTransition[key].file = src].durationMs

\* C22: a sequence that walks a path with a pair that has no transition
\* descriptor loads nothing and waits for nothing for that pair: what it has
\* loaded is always an initial part of the clips of the other pairs followed
\* by the destination's steady clip, with one wait per transition clip; when
\* it ends without being superseded it has loaded them all, the steady clip
\* last.
C22_GapSkippedSilently ==
    \A t \in Tokens :
        (seq[t].pc # "idle" /\ ~seq[t].direct /\ HasGap(seq[t].path))
        => LET loads == LoadsOf(t)
               clips == [k \in 1..Len(loads) |-> ClipOf(loads[k])]
               waits == WaitsOf(t)
               plan == PlanFrom(seq[t].path, 1)
           IN  /\ IsPrefix(clips, plan)
               /\ Len(waits) <= Len(clips)
               /\ \A k \in 1..Len(waits) :
                     waits[k].ms = ClipDuration(loads[k].src)
               /\ CompletedAsLatest(t)
                  => /\ clips = plan
                     /\ Len(waits) = Len(clips) - 1
                     /\ clips[Len(clips)] = SteadyClip(seq[t].nextRange)

\* C22 witness: the sequence of the path S1, S2, S3, SF has ended: it loaded
\* the two transition clips, waited twice and loaded the steady clip of SF.
C22_Witness ==
    \E t \in Tokens :
        /\ CompletedAsLatest(t)
        /\ seq[t].path = <<"S1", "S2", "S3", "SF">>
        /\ Len(WaitsOf(t)) = 2
        /\ ClipsOf(t) = <<TransitionClip("S1", "S2"), TransitionClip("S2", "S3"),
                          SteadyClip("SF")>>

\* the tokens issued so far, in the order of the readings they were issued to
IssuedTokens ==
    LET started == SelectSeq(Readings, LAMBDA ev : ev.token > 0)
    IN  [k \in 1..Len(started) |-> started[k].token]

\* C23: sequenceCounter never decreases; it grows, by exactly one, in the
\* steps in which a reading starts a sequence and in no other, and the new
\* value is that sequence's token.  So the tokens issued are 1, 2, 3, ... in
\* order, all distinct, and at most one sequence in flight owns the latest.
C23_TokensCountUp ==
    /\ [](/\ IssuedTokens = [k \in 1..sequenceCounter |-> k]
          /\ Cardinality({t \in Live : t = sequenceCounter}) <= 1
          /\ \A t \in Live : t <= sequenceCounter)
    /\ [][/\ sequenceCounter' >= sequenceCounter
          /\ sequenceCounter' # sequenceCounter
             <=> ( /\ Len(Readings') = Len(Readings) + 1
                   /\ Readings'[Len(Readings')].token > 0 )
          /\ sequenceCounter' # sequenceCounter
             => /\ sequenceCounter' = sequenceCounter + 1
                /\ Readings'[Len(Readings')].token = sequenceCounter']_vars

\* C23 witness: three sequences are in flight, with the tokens 1, 2 and 3.
C23_Witness ==
    /\ sequenceCounter = 3
    /\ Live = {1, 2, 3}
    /\ IssuedTokens = <<1, 2, 3>>

\* the step is a call of onReading; its reading is the last of Readings'
IsReadingStep == Len(Readings') = Len(Readings) + 1

\* C24: with a ready player, a reading whose range from the tracker equals
\* previousRange and for which the tracker produced no transition issues no
\* player.load, is given no token, and leaves sequenceCounter, previousRange
\* and every sequence, in flight or not, as they were.
C24_FastPathTouchesNothing ==
    [][( /\ IsReadingStep
         /\ playerReady
         /\ Readings'[Len(Readings')].range = previousRange
         /\ Readings'[Len(Readings')].transition = NoTransition )
       => /\ history' = Append(history, Readings'[Len(Readings')])
          /\ Readings'[Len(Readings')].token = 0
          /\ UNCHANGED <<sequenceCounter, previousRange, seq>>]_vars

\* C24 witness: a reading took the fast path while a sequence was in flight,
\* and that sequence went on to load its steady clip as the latest one.
C24_Witness ==
    \E k \in 1..Len(history) :
        /\ IsReading(history[k]) /\ playerReady
        /\ history[k].token = 0
        /\ history[k].range = history[k].prev
        /\ history[k].live # {}
        /\ \E t \in history[k].live :
              /\ CompletedAsLatest(t)
              /\ \E j \in (k + 1)..Len(history) :
                    IsLoad(history[j]) /\ history[j].token = t
                       /\ PlaysSteady(history[j], seq[t].nextRange)

\* the range the transition of an update starts from: the range the tracker
\* had recorded, S3 when it was in the final state
TransitionStart(ev) == IF ev.before.inSF THEN "S3" ELSE ev.before.currentRange

\* C25: every transition returned by update is single-step: it is the
\* descriptor of the pair made of the range recorded before the call (S3 for
\* the exit from the final state) and the returned range, the two are
\* adjacent, and its direction and mode lead to the returned range.
C25_TrackerEmitsSingleSteps ==
    \A k \in 1..Len(history) :
        (IsUpdate(history[k]) /\ history[k].transition # NoTransition)
        => LET start == TransitionStart(history[k])
               end == history[k].range
               tr == history[k].transition
           IN  /\ start \in Ranges /\ end \in Ranges
               /\ Abs(Position(start) - Position(end)) = 1
               /\ end = history[k].after.currentRange
               /\ tr.key = PairKey(start, end)
               /\ tr.key \in DOMAIN FilesTransition
               /\ tr.file = FilesTransition[tr.key].file
               /\ tr.durationMs = FilesTransition[tr.key].durationMs
               /\ tr.direction = (IF Position(end) > Position(start) THEN "up" ELSE "down")
               /\ tr.mode = (IF Position(end) > Position(start) THEN "forward" ELSE "reverse")

\* C25 witness: the tracker has returned the step from S2 up to S3 and,
\* later, the reverse step of the exit from the final state.
C25_Witness ==
    \E j, k \in 1..Len(history) :
        /\ j < k
        /\ IsUpdate(history[j]) /\ history[j].before.currentRange = "S2"
        /\ history[j].range = "S3" /\ history[j].transition.mode = "forward"
        /\ IsUpdate(history[k]) /\ history[k].before.inSF
        /\ history[k].range = "S2" /\ history[k].transition.mode = "reverse"

\* C26: outside the final state an update classified S1 or S2 clears the S3
\* timer, records classify(v) as currentRange and returns classify(v) with
\* the resolver's transition from the range recorded before to classify(v);
\* when no range was recorded yet the transition is null.
C26_BelowS3FollowsResolver ==
    \A k \in 1..Len(history) :
        (IsUpdate(history[k]) /\ ~history[k].before.inSF
           /\ classify(history[k].v) # "S3")
        => /\ history[k].after.s3EnteredAt = NoTime
           /\ ~history[k].after.inSF
           /\ history[k].after.currentRange = classify(history[k].v)
           /\ history[k].range = classify(history[k].v)
           /\ history[k].transition =
                 resolveTransition(history[k].before.currentRange,
                                   classify(history[k].v))
           /\ history[k].before.currentRange = Null
              => history[k].transition = NoTransition

\* C26 witness: the first update, of 75, returned S2 with no transition; a
\* later update of a non-finite value, with the tracker at S3 and its timer
\* set, cleared the timer and returned S1 with no transition (S3 and S1 are
\* not adjacent); an update of 75 then returned the step from S1 up to S2.
C26_Witness ==
    \E j, k \in 1..Len(history) :
        /\ IsUpdate(history[1]) /\ history[1].v = Num(75)
        /\ history[1].before.currentRange = Null
        /\ history[1].transition = NoTransition
        /\ 1 < j /\ j < k
        /\ IsUpdate(history[j]) /\ history[j].v = NaN
        /\ history[j].before.s3EnteredAt # NoTime
        /\ history[j].after = TrackerState("S1", FALSE, NoTime)
        /\ history[j].transition = NoTransition
        /\ IsUpdate(history[k]) /\ history[k].v = Num(75)
        /\ history[k].transition.key = "S1_S2"
        /\ history[k].transition.mode = "forward"

TransitionFiles == {FilesTransition[key].file : key \in DOMAIN FilesTransition}
SteadyFiles == {FilesState[r].file : r \in DOMAIN FilesState}

\* the direction the sequence with token t travels in: the direction of the
\* tracker's transition, or that of its path
TravelOf(t) ==
    IF seq[t].direct THEN history[ReadingOfToken(t)].transition.direction
    ELSE IF IndexOf(seq[t].nextRange) > IndexOf(seq[t].oldPrev) THEN "up"
    ELSE "down"

\* C27: a transition clip is loaded non-looping, forward when the sequence
\* travels up and in reverse when it travels down; a steady clip is loaded
\* looping and forward.  Within a sequence the steady clip is the last load
\* and, when the sequence loaded a transition clip, it comes right after
\* the wait of the last transition clip, which lasts that clip's duration.
C27_ClipModesAndOrder ==
    /\ \A k \in 1..Len(history) :
          IsLoad(history[k]) =>
              \/ /\ history[k].src \in TransitionFiles
                 /\ history[k].loop = FALSE
                 /\ history[k].mode =
                       (IF TravelOf(history[k].token) = "up" THEN "forward"
                        ELSE "reverse")
              \/ /\ history[k].src \in SteadyFiles
                 /\ history[k].loop = TRUE
                 /\ history[k].mode = "forward"
    /\ \A t \in Tokens :
          \A i \in 1..Len(EventsOf(t)) :
              (IsLoad(EventsOf(t)[i]) /\ EventsOf(t)[i].src \in SteadyFiles)
              => /\ i = Len(EventsOf(t))
                 /\ i > 2 =>
                       /\ IsWait(EventsOf(t)[i - 1])
                       /\ IsLoad(EventsOf(t)[i - 2])
                       /\ EventsOf(t)[i - 2].src \in TransitionFiles
                       /\ EventsOf(t)[i - 1].ms = ClipDuration(EventsOf(t)[i - 2].src)

\* C27 witness: a sequence travelling down has loaded its transition clip in
\* reverse, waited and loaded its steady clip.
C27_Witness ==
    \E t \in Tokens :
        /\ CompletedAsLatest(t)
        /\ TravelOf(t) = "down"
        /\ Len(EventsOf(t)) = 4
        /\ EventsOf(t)[2].mode = "reverse" /\ EventsOf(t)[2].loop = FALSE
        /\ IsWait(EventsOf(t)[3])
        /\ EventsOf(t)[4].loop = TRUE /\ EventsOf(t)[4].mode = "forward"

\* the red, green and blue values of a color given as six hex digits
Channels(hex) == <<16 * hex[1] + hex[2], 16 * hex[3] + hex[4], 16 * hex[5] + hex[6]>>

\* the keyframe at or below the value x, for x inside the keyframe span
BracketOf(x) ==
    CHOOSE i \in 1..(Len(COLOR_KEYFRAMES) - 1) :
        COLOR_KEYFRAMES[i].dB <= x /\ x < COLOR_KEYFRAMES[i + 1].dB

Least(a, b) == IF a < b THEN a ELSE b
Most(a, b) == IF a < b THEN b ELSE a

\* C28: for a value inside the keyframe span every channel of the color lies
\* between the channel values of the two keyframes around the value; at the
\* midpoint of the two keyframes every channel is the mean of the two values,
\* rounded to the nearest integer (a half rounds up).
C28_MidpointIsMeanColor ==
    \A k \in 1..Len(history) :
        ( /\ IsColor(history[k]) /\ history[k].v.finite
          /\ history[k].v.n > COLOR_KEYFRAMES[1].dB
          /\ history[k].v.n < COLOR_KEYFRAMES[Len(COLOR_KEYFRAMES)].dB )
        => LET x == history[k].v.n
               lo == Channels(COLOR_KEYFRAMES[BracketOf(x)].hex)
               hi == Channels(COLOR_KEYFRAMES[BracketOf(x) + 1].hex)
               c == Channels(history[k].hex)
           IN  /\ Len(history[k].hex) = 6
               /\ \A d \in 1..6 : history[k].hex[d] \in 0..15
               /\ \A ch \in 1..3 :
                     /\ Least(lo[ch], hi[ch]) <= c[ch]
                     /\ c[ch] <= Most(lo[ch], hi[ch])
                     /\ 2 * x = COLOR_KEYFRAMES[BracketOf(x)].dB
                                  + COLOR_KEYFRAMES[BracketOf(x) + 1].dB
                        => c[ch] = (lo[ch] + hi[ch] + 1) \div 2

\* C28 witness: the color of 100, the midpoint of the keyframes 95 (#ef8e2e)
\* and 105 (#ee5b2d), is #ef752e: 238.5, 116.5 and 45.5 rounded up.
C28_Witness ==
    \E k \in 1..Len(history) :
        /\ IsColor(history[k])
        /\ history[k].v = Num(100)
        /\ history[k].hex = <<14, 15, 7, 5, 2, 14>>

\* the steady clip loads of the controller, in the order they were issued
SteadyLoads ==
    SelectSeq(history, LAMBDA ev : IsSequenceLoad(ev) /\ ev.src \in SteadyFiles)

\* C29: when no sequence is in flight and a reading has been processed with
\* the player ready, previousRange is the tracker's currentRange, and it is
\* the range of the last steady clip loaded when one was loaded.
C29_SettledControllerAgreesWithTracker ==
    (AllSettled /\ playerReady /\ Readings # <<>>)
    => /\ previousRange = currentRange
       /\ SteadyLoads # <<>>
          => PlaysSteady(SteadyLoads[Len(SteadyLoads)], previousRange)

\* C30: with a ready player, every reading that moves the tracker's
\* currentRange from a range to another range is issued a token, greater than the token
\* of every sequence in flight at the call: no change of range takes the
\* controller's fast path.
C30_RangeChangeStartsSequence ==
    \A k \in 1..Len(history) :
        ( /\ IsReading(history[k]) /\ playerReady
          /\ history[k].before.currentRange # Null
          /\ history[k].after.currentRange # history[k].before.currentRange )
        => /\ history[k].token > 0
           /\ \A t \in history[k].live : t < history[k].token

\* the transition clip loads of the sequence with token t
TransitionLoadsOf(t) ==
    SelectSeq(LoadsOf(t), LAMBDA ev : ev.src \in TransitionFiles)

\* the number of adjacent pairs the sequence with token t travels: one for
\* the tracker's own transition, the path length less one otherwise
HopsOf(t) == IF seq[t].direct THEN 1 ELSE Len(seq[t].path) - 1

\* C31: when every load settles and every timer fires, whenever a sequence
\* is in flight there comes a state in which every sequence has ended (every
\* onReading call has returned); a sequence that ended without
\* being superseded loaded the steady clip of its range last, after at most
\* one transition clip and one wait for every adjacent pair of its path.
C31_EverySequenceReturns ==
    /\ (Live # {}) ~> AllSettled
    /\ [](\A t \in Tokens :
            CompletedAsLatest(t)
            => /\ LoadsOf(t) # <<>>
               /\ ClipOf(LoadsOf(t)[Len(LoadsOf(t))]) = SteadyClip(seq[t].nextRange)
               /\ Len(LoadsOf(t)) = Len(TransitionLoadsOf(t)) + 1
               /\ Len(TransitionLoadsOf(t)) <= HopsOf(t)
               /\ Len(WaitsOf(t)) <= HopsOf(t))

\* C31 witness: a sequence over the path S1, S2, S3 ended as the latest
\* after two transition clips, two waits and the steady clip of S3.
C31_Witness ==
    \E t \in Tokens :
        /\ CompletedAsLatest(t)
        /\ seq[t].path = <<"S1", "S2", "S3">>
        /\ Len(TransitionLoadsOf(t)) = 2
        /\ Len(WaitsOf(t)) = 2
        /\ ClipOf(LoadsOf(t)[3]) = SteadyClip("S3")

IsReset(ev) == ev.e = "reset"

\* C32: after any update and reset calls, inSF is true exactly when
\* currentRange is 'SF'.
C32_InSFIffRangeSF ==
    /\ inSF <=> currentRange = "SF"
    /\ \A k \in 1..Len(history) :
          IsUpdate(history[k])
          => (history[k].after.inSF <=> history[k].after.currentRange = "SF")

\* C32 witness: the tracker was reset, then entered the final state and has
\* left it with a reading of S2.
C32_Witness ==
    /\ ~inSF /\ currentRange = "S2"
    /\ \E j, k \in 1..Len(history) :
          /\ j < k
          /\ IsReset(history[j])
          /\ IsUpdate(history[k]) /\ history[k].before.inSF
          /\ history[k].before.currentRange = "SF"

\* the update moved the tracker out of the final state
Leaving(ev) == IsUpdate(ev) /\ ev.before.inSF /\ ~ev.after.inSF

\* the update is classified S3 and no call since the k-th is
FirstS3After(k, j) ==
    /\ k < j
    /\ IsUpdate(history[j]) /\ classify(history[j].v) = "S3"
    /\ \A m \in (k + 1)..(j - 1) :
          ~(IsUpdate(history[m]) /\ classify(history[m].v) = "S3")

\* C33: an update that leaves the final state leaves the dwell timer null.
\* The first update classified S3 after it does not escalate, whatever S3
\* readings came while in the final state: it starts the timer at its own
\* time.  The final state is entered again only by an update that ends an
\* uninterrupted run of S3 updates, all after the exit, spanning at least
\* 10000 ms.
C33_ReentryNeedsNewDwell ==
    \A k \in 1..Len(history) :
        Leaving(history[k])
        => /\ history[k].after.s3EnteredAt = NoTime
           /\ \A j \in (k + 1)..Len(history) :
                 /\ FirstS3After(k, j)
                    => history[j].after
                         = TrackerState("S3", FALSE, history[j].at)
                 /\ Entering(history[j])
                    => /\ RunStart(j) > k
                       /\ history[j].at - history[RunStart(j)].at >= 10000

\* C33 witness: in the final state the tracker received a reading of S3,
\* left on a reading of S2, and the next reading, of S3 and more than 10000
\* ms after the first one, did not bring the final state back.
C33_Witness ==
    \E k \in 2..(Len(history) - 1) :
        /\ Leaving(history[k])
        /\ IsUpdate(history[k - 1]) /\ history[k - 1].before.inSF
        /\ classify(history[k - 1].v) = "S3"
        /\ IsUpdate(history[k + 1]) /\ classify(history[k + 1].v) = "S3"
        /\ history[k + 1].at - history[1].at >= 10000
        /\ ~inSF /\ s3EnteredAt = history[k + 1].at

\* the final state was entered, left and, after a new dwell, entered again
C33_Reentered ==
    \E i, k, j \in 1..Len(history) :
        /\ i < k /\ k < j
        /\ Entering(history[i]) /\ Leaving(history[k]) /\ Entering(history[j])

IsTrack(ev) == ev.e = "track"

\* C34: classify never returns 'SF': for every input the test of S1, S2 or
\* S3 matches, so the return after the loop is not reached.  The tracker
\* returns range SF only from its final state: when it was in it and stays,
\* or when a reading of S3 ends a dwell of at least 10000 ms; any other
\* result carries the range classify returned.
C34_ClassifyNeverFinal ==
    \A k \in 1..Len(history) :
        /\ IsClassify(history[k])
           => /\ history[k].range # "SF"
              /\ \E r \in Ranges \ {"SF"} : RangeTest(r, ValueOf(history[k].v))
        /\ IsTrack(history[k])
           => LET ev == history[k]
              IN  /\ classify(ev.v) # "SF"
                  /\ ev.result.range = "SF"
                     => /\ ev.result.inSF /\ ev.result.currentRange = "SF"
                        /\ \/ ev.before.inSF
                           \/ /\ classify(ev.v) = "S3"
                              /\ ev.before.s3EnteredAt # NoTime
                              /\ ev.at - ev.before.s3EnteredAt >= 10000
                  /\ ev.result.range # "SF"
                     => /\ ev.result.range = classify(ev.v)
                        /\ ~ev.result.inSF

\* C34 witness: the loudest input is classified S3, not SF.
C34_Witness ==
    \E k \in 1..Len(history) :
        /\ IsClassify(history[k])
        /\ history[k].v = Num(MaxDb)
        /\ history[k].range = "S3"

\* the tracker returned SF for a reading of S3 at the end of its dwell
C34_Escalated ==
    \E k \in 1..Len(history) :
        /\ IsTrack(history[k])
        /\ ~history[k].before.inSF
        /\ history[k].result.range = "SF"

(***************************************************************************)
(* The five-range model: steady states, transitions and paths.             *)
(***************************************************************************)
\* files.state
FilesStateFive ==
    [S1 |-> [file |-> "./media/state_1.json", mode |-> "forward", loop |-> TRUE],
     S2 |-> [file |-> "./media/state_2.json", mode |-> "forward", loop |-> TRUE],
     S3 |-> [file |-> "./media/state_3.json", mode |-> "forward", loop |-> TRUE],
     S4 |-> [file |-> "./media/state_4.json", mode |-> "forward", loop |-> TRUE],
     S5 |-> [file |-> "./media/state_5.json", mode |-> "forward", loop |-> TRUE]]

\* files.transition
FilesTransitionFive ==
    [S1_S2 |-> [file |-> "./media/transition_1_2.json", durationMs |-> 2000],
     S2_S3 |-> [file |-> "./media/transition_2_3.json", durationMs |-> 2000],
     S3_S4 |-> [file |-> "./media/transition_3_4.json", durationMs |-> 2000],
     S4_S5 |-> [file |-> "./media/transition_4_5.json", durationMs |-> 2000]]

\* STATE_SEQUENCE.indexOf(range): 0-based, -1 when absent
IndexOfFive(range) ==
    IF \E i \in 1..Len(STATE_SEQUENCE_FIVE) : STATE_SEQUENCE_FIVE[i] = range
    THEN (CHOOSE i \in 1..Len(STATE_SEQUENCE_FIVE) : STATE_SEQUENCE_FIVE[i] = range) - 1
    ELSE -1

getStateConfigFive(range) ==
    IF range \in DOMAIN FilesStateFive THEN FilesStateFive[range] ELSE NoStateConfig

getRangeDirectionFive(prevRange, nextRange) ==
    IF prevRange = Null \/ nextRange = Null \/ prevRange = nextRange THEN "steady"
    ELSE IF IndexOfFive(prevRange) = -1 \/ IndexOfFive(nextRange) = -1 THEN "steady"
    ELSE IF IndexOfFive(nextRange) > IndexOfFive(prevRange) THEN "up"
    ELSE IF IndexOfFive(nextRange) < IndexOfFive(prevRange) THEN "down"
    ELSE "steady"

resolveTransitionFive(prevRange, nextRange) ==
    LET direction == getRangeDirectionFive(prevRange, nextRange)
        prevIndex == IndexOfFive(prevRange)
        nextIndex == IndexOfFive(nextRange)
        startRange == IF direction = "up" THEN prevRange ELSE nextRange
        endRange == IF direction = "up" THEN nextRange ELSE prevRange
        key == TransitionKey(startRange, endRange)
    IN  IF direction = "steady" THEN NoTransition
        ELSE IF prevIndex = -1 \/ nextIndex = -1 THEN NoTransition
        ELSE IF Abs(prevIndex - nextIndex) # 1 THEN NoTransition
        ELSE IF key \notin DOMAIN FilesTransitionFive THEN NoTransition
        ELSE [key |-> key,
              direction |-> direction,
              file |-> FilesTransitionFive[key].file,
              durationMs |-> DurationOf(FilesTransitionFive[key]),
              mode |-> IF direction = "up" THEN "forward" ELSE "reverse"]

RECURSIVE PathFromFive(_, _, _)
PathFromFive(i, step, nextIndex) ==
    IF i = nextIndex THEN <<STATE_SEQUENCE_FIVE[i + 1]>>
    ELSE <<STATE_SEQUENCE_FIVE[i + 1]>> \o PathFromFive(i + step, step, nextIndex)

buildRangePathFive(prevRange, nextRange) ==
    LET prevIndex == IndexOfFive(prevRange)
        nextIndex == IndexOfFive(nextRange)
    IN  IF prevRange = Null \/ nextRange = Null
        THEN IF nextRange # Null THEN <<nextRange>> ELSE <<>>
        ELSE IF prevIndex = -1 \/ nextIndex = -1 THEN <<nextRange>>
        ELSE IF prevIndex = nextIndex THEN <<nextRange>>
        ELSE PathFromFive(prevIndex, IF nextIndex > prevIndex THEN 1 ELSE -1,
                          nextIndex)

(***************************************************************************)
(* The plain controller: onReading classifies the reading itself, without  *)
(* the tracker, over the five-range model.  Its sequences are those of     *)
(* playTransitionSequence and playSteady; previousRange is written by      *)
(* onReading only, before the sequence starts.                             *)
(***************************************************************************)
playSteadyPlain(range, sequenceId, counter) ==
    LET stateConfig == getStateConfigFive(range)
        clip == Clip(stateConfig.file, stateConfig.mode, stateConfig.loop)
    IN  IF sequenceId # counter THEN ReturnStep
        ELSE IF stateConfig = NoStateConfig THEN ReturnStep
        ELSE IF loadClip(clip) THEN LoadStep("loadSteady", 0, clip, NoTransition)
        ELSE ReturnStep

\* playTransitionSequence after `await loadClip(...)` of the pair at index i
AfterPathLoadPlain(i, transition, sequenceId, counter) ==
    IF sequenceId # counter THEN ReturnStep
    ELSE DelayStep("pathDelay", i, transition)

\* the for loop of playTransitionSequence entered at 0-based index i, up to
\* its next await
RECURSIVE PathLoopPlain(_, _, _, _)
PathLoopPlain(path, i, sequenceId, counter) ==
    IF ~(i < Len(path) - 1)
    THEN playSteadyPlain(path[Len(path)], sequenceId, counter)
    ELSE IF sequenceId # counter THEN ReturnStep
    ELSE LET transition == resolveTransitionFive(path[i + 1], path[i + 2])
             clip == Clip(transition.file, transition.mode, FALSE)
         IN  IF transition = NoTransition
             THEN PathLoopPlain(path, i + 1, sequenceId, counter)
             ELSE IF loadClip(clip)
             THEN LoadStep("loadPathTransition", i, clip, transition)
             ELSE AfterPathLoadPlain(i, transition, sequenceId, counter)

playTransitionSequencePlain(path, sequenceId, counter) ==
    IF Len(path) = 0 THEN ReturnStep
    ELSE IF Len(path) = 1 THEN playSteadyPlain(path[1], sequenceId, counter)
    ELSE PathLoopPlain(path, 0, sequenceId, counter)

\* the readings the plain onReading draws from: a non-finite one (S1) and
\* values of S2, S3 and S5
PlainValues == {NaN, Num(80), Num(90), Num(125)}

\* onReading(v) of the plain controller was called: previousRange before and
\* after the call, the range of the reading, the sequences in flight at the
\* call and the token issued (0 when none)
PlainReadingEvent(v, token, range, after) ==
    [e |-> "reading", token |-> token, v |-> v, at |-> now, range |-> range,
     prev |-> previousRange, after |-> after, live |-> Live]

\* the sequence `t`, with locals `r`, reaches `step` after `events`
ProceedPlain(t, r, step, events, counter) ==
    /\ history' = history \o events \o
                    (IF step.k = "load"
                     THEN <<LoadEvent(t, step.clip, counter)>> ELSE <<>>)
    /\ seq' = [seq EXCEPT ![t] =
                 CASE step.k = "load" ->
                        [r EXCEPT !.pc = step.pc, !.i = step.i,
                                  !.transition = step.transition]
                   [] step.k = "delay" ->
                        [r EXCEPT !.pc = step.pc, !.i = step.i,
                                  !.transition = step.transition,
                                  !.deadline = delay(step.transition.durationMs)]
                   [] OTHER -> [r EXCEPT !.pc = "done"]]

\* mutation of PreviousAtCall: onReading leaves previousRange to the end of
\* the sequence
PreviousAtCallKept(nextRange) == previousRange

\* previousRange = nextRange
PreviousAtCall(nextRange) == nextRange

plainOnReading(dbValue) ==
    /\ NumReadings < MaxReadings
    /\ UNCHANGED <<tracker, bootstrap, app, now, ticks, bodyColor>>
    /\ IF ~isPlayerReady
       THEN /\ history' = Append(history,
                                 PlainReadingEvent(dbValue, 0, Null, previousRange))
            /\ UNCHANGED <<previousRange, sequenceCounter, seq>>
       ELSE LET normalizedValue == IF dbValue.finite THEN dbValue ELSE Num(0)
                nextRange == classifyFive(normalizedValue)
                path == buildRangePathFive(previousRange, nextRange)
                sequenceId == NextToken(sequenceCounter)
                r == [IdleSeq EXCEPT !.nextRange = nextRange,
                                     !.oldPrev = previousRange,
                                     !.path = path]
            IN  IF nextRange = previousRange
                THEN /\ history' = Append(history,
                                          PlainReadingEvent(dbValue, 0, nextRange,
                                                            previousRange))
                     /\ UNCHANGED <<previousRange, sequenceCounter, seq>>
                ELSE /\ previousRange' = PreviousAtCall(nextRange)
                     /\ sequenceCounter' = sequenceId
                     /\ ProceedPlain(sequenceId, r,
                                     playTransitionSequencePlain(path, sequenceId,
                                                                 sequenceId),
                                     <<PlainReadingEvent(dbValue, sequenceId,
                                                         nextRange,
                                                         PreviousAtCall(nextRange))>>,
                                     sequenceId)

PlainOnReading == \E dbValue \in PlainValues : plainOnReading(dbValue)

\* the promise of the player.load call that sequence t awaits settles
PlainLoadSettled(t) ==
    /\ seq[t].pc \in {"loadPathTransition", "loadSteady"}
    /\ ProceedPlain(t, seq[t],
                    IF seq[t].pc = "loadPathTransition"
                    THEN AfterPathLoadPlain(seq[t].i, seq[t].transition, t,
                                            sequenceCounter)
                    ELSE ReturnStep,
                    <<>>, sequenceCounter)
    /\ UNCHANGED <<tracker, previousRange, sequenceCounter, bootstrap, app, now,
                   ticks, bodyColor>>

\* the timer of the delay that sequence t awaits fires
PlainTimerFired(t) ==
    /\ seq[t].pc = "pathDelay"
    /\ now >= seq[t].deadline
    /\ ProceedPlain(t, seq[t],
                    PathLoopPlain(seq[t].path, seq[t].i + 1, t, sequenceCounter),
                    <<WaitEvent(t, seq[t].transition.durationMs)>>,
                    sequenceCounter)
    /\ UNCHANGED <<tracker, previousRange, sequenceCounter, bootstrap, app, now,
                   ticks, bodyColor>>

PlainSettle == \E t \in Tokens : PlainLoadSettled(t)

PlainTimer == \E t \in Tokens : PlainTimerFired(t)

\* the pageshow listener of the bootstrap module that goes with the plain
\* controller: reloadInitialState, the same player.load of the initial clip
PlainPageShow ==
    /\ NumPageShows < MaxPageShows
    /\ canvas
    /\ reloadInitialState

NextPlain ==
    PlainOnReading \/ PlainSettle \/ PlainTimer \/ Advance \/ PlainPageShow

SpecPlain == Init /\ [][NextPlain]_vars

\* C35: in the plain controller, with a ready player, previousRange is at
\* every moment after an onReading call the range classify gives the last
\* reading: onReading writes it before the first load of the sequence, and
\* no continuation of a sequence, superseded or not, writes it.
C35_PlainPreviousIsLastRange ==
    /\ (playerReady /\ Readings # <<>>)
       => previousRange = classifyFive(Readings[Len(Readings)].v)
    /\ \A k \in 1..Len(history) :
          (IsReading(history[k]) /\ playerReady)
          => /\ history[k].after = classifyFive(history[k].v)
             /\ history[k].range = history[k].after

\* C35 witness: a sequence over three or more ranges was superseded after
\* its first load by a reading of another range; everything has settled and
\* previousRange is the range of the last reading.
C35_Witness ==
    /\ AllSettled
    /\ \E a \in Tokens :
          /\ a < sequenceCounter
          /\ seq[a].pc = "done"
          /\ Len(seq[a].path) >= 3
          /\ Len(LoadsOf(a)) = 1
    /\ previousRange = classifyFive(Readings[Len(Readings)].v)
    /\ previousRange # seq[1].nextRange

(***************************************************************************)
(* The app module: the Start and Stop buttons, the audio loop, the         *)
(* simulation switch and slider, and the page's visibility.                *)
(* startListening is async: it runs up to `await getUserMedia(...)`, then  *)
(* up to `await audioContext.resume()` when the new AudioContext is        *)
(* suspended, then to its end; its finally block clears the click guard.   *)
(* stopListening is synchronous and has no try block.  The try block of    *)
(* startListening ends with the first processAudio(), which runs again on  *)
(* every animation frame it requested and hands the reading to the         *)
(* controller's onReading when DB_READING_UPDATE_INTERVAL has passed.      *)
(* restartMicrophone and the visibilitychange listener are async too: the  *)
(* calls of them that wait are in `pending`.                               *)
(***************************************************************************)
\* the page's time origin is the start of the navigation: performance.now()
\* and Date.now() count from it, and the modules are loaded PageLoadedAt
\* milliseconds later
PageLoadedAt == 1000

DateNow == now

PerformanceNow == now

\* the clock advances by just under the click interval, by the click
\* interval, or by the interval between two readings
ClickTickSteps ==
    {MIN_CLICK_INTERVAL - 1, MIN_CLICK_INTERVAL, DB_READING_UPDATE_INTERVAL}

\* what processAudio measures with the analyser: -Infinity on silence
\* (calculateDB of an rms of 0), or 100 when every frequency bin is 255
\* (20 * log10(1 / 0.00001))
AudioLevels == {NaN, Num(100)}

\* the values the simulation slider is moved to; parseInt reads them
SimSliderValues == {Num(90), Num(100)}

\* updateButtonStates: startBtn.disabled = isListening
StartBtnDisabled == isListening

\* updateButtonStates: stopBtn.disabled = !isListening
StopBtnDisabled == ~isListening

\* isProcessingClick || (now - lastStartStopClick < MIN_CLICK_INTERVAL)
ClickIgnored(t) ==
    isProcessingClick \/ (t - lastStartStopClick < MIN_CLICK_INTERVAL)

\* the module declares no resetTheme, which stopListening calls: the call
\* throws a ReferenceError
resetThemeDeclared == FALSE

\* a click on Start or Stop: the guard's state at the call and whether the
\* click was processed
ClickEvent(btn, accepted) ==
    [e |-> "click", btn |-> btn, at |-> DateNow, accepted |-> accepted,
     processing |-> isProcessingClick, last |-> lastStartStopClick,
     pending |-> startPc # "idle"]

\* a startListening call came to its end, an exception left stopListening
EndEvent(what) == [e |-> what, at |-> DateNow]

\* the clicks on Start and Stop so far
NumClicks == Cardinality({k \in 1..Len(history) : history[k].e = "click"})

\* the handler leaves the controller and the tracker as they are
ControllerFrame ==
    UNCHANGED <<tracker, previousRange, sequenceCounter, seq, bodyColor>>

\* the handler leaves the player, the gear icon and the clock as they are
PageFrame == UNCHANGED <<bootstrap, gear, now, ticks>>

\* the handler leaves the switch, the slider and the visibility as they are
SwitchFrame ==
    UNCHANGED <<simModeChecked, simSliderValue, documentHidden,
                wasListeningBeforeHidden, audioContextWasSuspended, switches>>

\* a call of restartMicrophone or of the visibilitychange listener that
\* waits: at `await getUserMedia(...)`, or at `await audioContext.resume()`
\* on the context the module holds ("resume"), on a context the module has
\* replaced since ("resumeReplaced") or on one it has closed since
\* ("resumeClosed", whose resume() rejects)
Await(call, pc) == [call |-> call, pc |-> pc]

\* audioContext.close() on the context the module holds
Closed(p) ==
    [k \in 1..Len(p) |->
        IF p[k].pc = "resume" THEN Await(p[k].call, "resumeClosed") ELSE p[k]]

\* audioContext = new AudioContextClass() over a context left open
Replaced(p) ==
    [k \in 1..Len(p) |->
        IF p[k].pc = "resume" THEN Await(p[k].call, "resumeReplaced") ELSE p[k]]

\* the call at position i has run to its end
Without(p, i) == SubSeq(p, 1, i - 1) \o SubSeq(p, i + 1, Len(p))

\* syncAnimationWithDb(db): onReading of a finite value, of 0 otherwise; the
\* promise onReading returns is not awaited
syncAnimationWithDb(events, db) ==
    onReadingAfter(events, IF db.finite THEN db ELSE Num(0))

\* updateDbDisplay(db): the text of the reading, then syncAnimationWithDb
updateDbDisplay(events, db) == syncAnimationWithDb(events, db)

\* stopAudioResources(): the animation frame is cancelled, the tracks are
\* stopped, the AudioContext is closed
stopAudioResources ==
    /\ animationId' = FALSE
    /\ mediaStream' = FALSE
    /\ audioContext' = Null
    /\ analyser' = FALSE
    /\ pending' = Closed(pending)

\* stopMicrophoneOnly(): as stopAudioResources, but the animation frame is
\* left requested
stopMicrophoneOnly ==
    /\ mediaStream' = FALSE
    /\ audioContext' = Null
    /\ analyser' = FALSE
    /\ pending' = Closed(pending)

\* processAudio(), with isListening at `listening`, the analyser there or
\* not and lastDbReadingUpdate at `last`: not listening it returns; in sim
\* mode the level is the slider's value; with no analyser it requests the
\* next frame and returns; the reading is displayed, and given to the
\* controller, when DB_READING_UPDATE_INTERVAL has passed since the last
\* one; the next frame is requested
processAudio(events, listening, hasAnalyser, last) ==
    IF ~listening
    THEN /\ history' = history \o events
         /\ lastDbReadingUpdate' = last
         /\ UNCHANGED animationId
         /\ ControllerFrame
    ELSE /\ animationId' = TRUE
         /\ \E db \in (IF simModeChecked THEN {simSliderValue} ELSE AudioLevels) :
               IF /\ simModeChecked \/ hasAnalyser
                  /\ PerformanceNow - last >= DB_READING_UPDATE_INTERVAL
               THEN /\ updateDbDisplay(events, db)
                    /\ lastDbReadingUpdate' = PerformanceNow
               ELSE /\ history' = history \o events
                    /\ lastDbReadingUpdate' = last
                    /\ ControllerFrame

\* startListening() up to `await navigator.mediaDevices.getUserMedia(...)`
StartClick ==
    /\ NumClicks + switches < MaxUserEvents
    /\ ~StartBtnDisabled
    /\ IF ClickIgnored(DateNow)
       THEN /\ history' = Append(history, ClickEvent("start", FALSE))
            /\ UNCHANGED <<clickGuard, analyser, animationId, pending>>
       ELSE /\ lastStartStopClick' = DateNow
            /\ isProcessingClick' = TRUE
            /\ IF mediaStream
               THEN stopAudioResources
               ELSE UNCHANGED <<mediaStream, audioContext, analyser,
                                animationId, pending>>
            /\ startPc' = "getUserMedia"
            /\ history' = Append(history, ClickEvent("start", TRUE))
            /\ UNCHANGED <<isListening, lastDbReadingUpdate>>
    /\ SwitchFrame
    /\ ControllerFrame
    /\ PageFrame

\* the end of startListening's try block (the analyser, isListening = true,
\* the update timestamps reset, the first processAudio()), then its finally
\* block
StartSucceeds ==
    /\ analyser' = TRUE
    /\ isListening' = TRUE
    /\ isProcessingClick' = FALSE
    /\ startPc' = "idle"
    /\ processAudio(<<EndEvent("listening")>>, TRUE, TRUE, 0)
    /\ UNCHANGED pending

\* the catch block of startListening (stopAudioResources), then finally
StartFails ==
    /\ stopAudioResources
    /\ isProcessingClick' = FALSE
    /\ startPc' = "idle"
    /\ history' = Append(history, EndEvent("failed"))
    /\ UNCHANGED <<isListening, lastDbReadingUpdate>>
    /\ ControllerFrame

\* getUserMedia resolved: the AudioContext is created running or suspended,
\* or the browser has no AudioContext class and the call throws
GetUserMediaResolved ==
    /\ startPc = "getUserMedia"
    /\ \E state \in {"running", "suspended", "unsupported"} :
          CASE state = "running" ->
                 /\ mediaStream' = TRUE
                 /\ audioContext' = state
                 /\ StartSucceeds
            [] state = "suspended" ->
                 /\ mediaStream' = TRUE
                 /\ audioContext' = state
                 /\ startPc' = "resume"
                 /\ UNCHANGED <<isProcessingClick, isListening,
                                lastDbReadingUpdate, history, analyser,
                                animationId, pending>>
                 /\ ControllerFrame
            [] OTHER -> StartFails
    /\ UNCHANGED lastStartStopClick
    /\ SwitchFrame
    /\ PageFrame

\* getUserMedia rejected (permission denied, no device)
GetUserMediaRejected ==
    /\ startPc = "getUserMedia"
    /\ StartFails
    /\ UNCHANGED lastStartStopClick
    /\ SwitchFrame
    /\ PageFrame

\* audioContext.resume() resolved
ResumeResolved ==
    /\ startPc = "resume"
    /\ audioContext' = "running"
    /\ StartSucceeds
    /\ UNCHANGED <<lastStartStopClick, mediaStream>>
    /\ SwitchFrame
    /\ PageFrame

\* audioContext.resume() rejected
ResumeRejected ==
    /\ startPc = "resume"
    /\ StartFails
    /\ UNCHANGED lastStartStopClick
    /\ SwitchFrame
    /\ PageFrame

\* stopListening(): the statements after resetTheme() run only when the
\* call returns
StopClick ==
    /\ NumClicks + switches < MaxUserEvents
    /\ ~StopBtnDisabled
    /\ IF ClickIgnored(DateNow)
       THEN /\ history' = Append(history, ClickEvent("stop", FALSE))
            /\ UNCHANGED <<clickGuard, analyser, animationId, pending>>
       ELSE /\ lastStartStopClick' = DateNow
            /\ stopAudioResources
            /\ isListening' = FALSE
            /\ isProcessingClick' = ~resetThemeDeclared
            /\ lastDbReadingUpdate' =
                  (IF resetThemeDeclared THEN 0 ELSE lastDbReadingUpdate)
            /\ history' = history \o <<ClickEvent("stop", TRUE)>> \o
                            (IF resetThemeDeclared THEN <<>>
                             ELSE <<EndEvent("ReferenceError")>>)
            /\ UNCHANGED startPc
    /\ SwitchFrame
    /\ ControllerFrame
    /\ PageFrame

\* the animation frame processAudio requested
ProcessAudioFrame ==
    /\ animationId
    /\ processAudio(<<>>, isListening, analyser, lastDbReadingUpdate)
    /\ UNCHANGED <<isProcessingClick, lastStartStopClick, isListening,
                   mediaStream, audioContext, startPc, analyser, pending>>
    /\ SwitchFrame
    /\ PageFrame

\* handleSimModeToggle, the switch's change listener: switched on while
\* listening, the microphone is stopped and the slider's value is displayed
\* at once; switched off while listening, restartMicrophone() runs up to
\* `await navigator.mediaDevices.getUserMedia(...)`
SimModeChange ==
    /\ NumClicks + switches < MaxUserEvents
    /\ switches' = switches + 1
    /\ simModeChecked' = ~simModeChecked
    /\ IF simModeChecked' /\ isListening
       THEN /\ stopMicrophoneOnly
            /\ updateDbDisplay(<<>>, simSliderValue)
       ELSE /\ pending' = IF isListening
                          THEN Append(pending, Await("restart", "getUserMedia"))
                          ELSE pending
            /\ UNCHANGED <<mediaStream, audioContext, analyser, history>>
            /\ ControllerFrame
    /\ UNCHANGED <<isProcessingClick, lastStartStopClick, isListening, startPc,
                   lastDbReadingUpdate, animationId>>
    /\ UNCHANGED <<simSliderValue, documentHidden, wasListeningBeforeHidden,
                   audioContextWasSuspended>>
    /\ PageFrame

\* handleSimSliderChange, the slider's input listener: in sim mode while
\* listening the new value is displayed at once
SimSliderInput ==
    /\ NumClicks + switches < MaxUserEvents
    /\ switches' = switches + 1
    /\ \E db \in SimSliderValues \ {simSliderValue} :
          /\ simSliderValue' = db
          /\ IF simModeChecked /\ isListening
             THEN updateDbDisplay(<<>>, db)
             ELSE UNCHANGED history /\ ControllerFrame
    /\ UNCHANGED <<clickGuard, analyser, animationId, pending>>
    /\ UNCHANGED <<simModeChecked, documentHidden, wasListeningBeforeHidden,
                   audioContextWasSuspended>>
    /\ PageFrame

\* restartMicrophone: getUserMedia resolved, the AudioContext is created
\* running or suspended
RestartGetUserMediaResolved ==
    /\ \E i \in 1..Len(pending), state \in {"running", "suspended"} :
          /\ pending[i] = Await("restart", "getUserMedia")
          /\ mediaStream' = TRUE
          /\ audioContext' = state
          /\ IF state = "running"
             THEN /\ analyser' = TRUE
                  /\ pending' = Without(Replaced(pending), i)
             ELSE /\ UNCHANGED analyser
                  /\ pending' = [Replaced(pending) EXCEPT
                                   ![i] = Await("restart", "resume")]
    /\ UNCHANGED <<isProcessingClick, lastStartStopClick, isListening, startPc,
                   lastDbReadingUpdate, animationId, history>>
    /\ SwitchFrame
    /\ ControllerFrame
    /\ PageFrame

\* restartMicrophone: getUserMedia rejected, the catch block sets the status
RestartGetUserMediaRejected ==
    /\ \E i \in 1..Len(pending) :
          /\ pending[i] = Await("restart", "getUserMedia")
          /\ pending' = Without(pending, i)
    /\ UNCHANGED <<clickGuard, analyser, animationId, history>>
    /\ SwitchFrame
    /\ ControllerFrame
    /\ PageFrame

\* the resume() a call waits for at `pc` settles: the module's context
\* after it
Resumed(pc, resolved) ==
    IF resolved /\ pc = "resume" THEN "running" ELSE audioContext

\* restartMicrophone: audioContext.resume() settled.  Resolved, the call
\* goes on to createMediaStreamSource on the context the module holds now,
\* which throws when there is none; rejected, the catch block sets the
\* status.
RestartResumeSettled ==
    /\ \E i \in 1..Len(pending), settled \in BOOLEAN :
          LET pc == pending[i].pc
              resolved == settled /\ pc # "resumeClosed"
          IN  /\ pending[i].call = "restart"
              /\ pc # "getUserMedia"
              /\ audioContext' = Resumed(pc, resolved)
              /\ analyser' = IF resolved /\ audioContext # Null
                             THEN TRUE ELSE analyser
              /\ pending' = Without(pending, i)
    /\ UNCHANGED <<isProcessingClick, lastStartStopClick, isListening,
                   mediaStream, startPc, lastDbReadingUpdate, animationId,
                   history>>
    /\ SwitchFrame
    /\ ControllerFrame
    /\ PageFrame

\* the beforeunload listener: stopAudioResources() while listening
BeforeUnload ==
    /\ NumClicks + switches < MaxUserEvents
    /\ switches' = switches + 1
    /\ IF isListening
       THEN stopAudioResources
       ELSE UNCHANGED <<mediaStream, audioContext, analyser, animationId,
                        pending>>
    /\ UNCHANGED <<isProcessingClick, lastStartStopClick, isListening, startPc,
                   lastDbReadingUpdate, history>>
    /\ UNCHANGED <<simModeChecked, simSliderValue, documentHidden,
                   wasListeningBeforeHidden, audioContextWasSuspended>>
    /\ ControllerFrame
    /\ PageFrame

\* the end of the visibilitychange listener for a page that is visible
\* again: processAudio() unless a frame is requested, then
\* wasListeningBeforeHidden = false
VisibleRestartsLoop ==
    /\ IF ~animationId
       THEN processAudio(<<>>, isListening, analyser, lastDbReadingUpdate)
       ELSE /\ UNCHANGED <<animationId, lastDbReadingUpdate, history>>
            /\ ControllerFrame
    /\ wasListeningBeforeHidden' = FALSE

\* the visibilitychange listener.  Hidden while listening with a context:
\* the animation frame is cancelled.  Visible again: with a context that is
\* suspended and was not when the page was hidden, the listener runs up to
\* `await audioContext.resume()`; otherwise to its end.
VisibilityChange ==
    /\ NumClicks + switches < MaxUserEvents
    /\ switches' = switches + 1
    /\ documentHidden' = ~documentHidden
    /\ IF documentHidden'
       THEN /\ IF isListening /\ audioContext # Null
               THEN /\ wasListeningBeforeHidden' = TRUE
                    /\ audioContextWasSuspended' = (audioContext # "suspended")
                    /\ animationId' = FALSE
               ELSE UNCHANGED <<wasListeningBeforeHidden,
                                audioContextWasSuspended, animationId>>
            /\ UNCHANGED <<lastDbReadingUpdate, history, pending>>
            /\ ControllerFrame
       ELSE /\ IF wasListeningBeforeHidden /\ audioContext # Null
               THEN IF audioContext = "suspended" /\ audioContextWasSuspended
                    THEN /\ pending' = Append(pending, Await("visible", "resume"))
                         /\ UNCHANGED <<wasListeningBeforeHidden, animationId,
                                        lastDbReadingUpdate, history>>
                         /\ ControllerFrame
                    ELSE /\ VisibleRestartsLoop
                         /\ UNCHANGED pending
               ELSE /\ wasListeningBeforeHidden' = FALSE
                    /\ UNCHANGED <<animationId, lastDbReadingUpdate, history,
                                   pending>>
                    /\ ControllerFrame
            /\ UNCHANGED audioContextWasSuspended
    /\ UNCHANGED <<isProcessingClick, lastStartStopClick, isListening,
                   mediaStream, audioContext, startPc, analyser>>
    /\ UNCHANGED <<simModeChecked, simSliderValue>>
    /\ PageFrame

\* the visibilitychange listener: audioContext.resume() settled, resolved
\* or rejected (the rejection is caught), and the listener runs to its end
VisibleResumeSettled ==
    /\ \E i \in 1..Len(pending), settled \in BOOLEAN :
          LET pc == pending[i].pc
              resolved == settled /\ pc # "resumeClosed"
          IN  /\ pending[i].call = "visible"
              /\ audioContext' = Resumed(pc, resolved)
              /\ pending' = Without(pending, i)
    /\ VisibleRestartsLoop
    /\ UNCHANGED <<isProcessingClick, lastStartStopClick, isListening,
                   mediaStream, startPc, analyser>>
    /\ UNCHANGED <<simModeChecked, simSliderValue, documentHidden,
                   audioContextWasSuspended, switches>>
    /\ PageFrame

\* the browser suspends the running AudioContext of a hidden page; the
\* visibilitychange listener reads audioContext.state when the page is
\* visible again
ContextSuspended ==
    /\ documentHidden
    /\ audioContext = "running"
    /\ audioContext' = "suspended"
    /\ UNCHANGED <<isProcessingClick, lastStartStopClick, isListening,
                   mediaStream, startPc, lastDbReadingUpdate, history>>
    /\ UNCHANGED audioLoop
    /\ ControllerFrame
    /\ PageFrame

ClickTick ==
    /\ ticks < MaxTicks
    /\ \E d \in ClickTickSteps : now' = now + d
    /\ ticks' = ticks + 1
    /\ UNCHANGED <<tracker, previousRange, sequenceCounter, bootstrap, seq,
                   bodyColor, history, app>>

\* the handlers of the Start and Stop buttons, of the simulation switch and
\* slider and of the page's visibility and unload, the animation frames of
\* the audio loop, and what they set going in the controller and the player
NextClick ==
    \/ StartClick
    \/ GetUserMediaResolved
    \/ GetUserMediaRejected
    \/ ResumeResolved
    \/ ResumeRejected
    \/ StopClick
    \/ ProcessAudioFrame
    \/ SimModeChange
    \/ SimSliderInput
    \/ RestartGetUserMediaResolved
    \/ RestartGetUserMediaRejected
    \/ RestartResumeSettled
    \/ BeforeUnload
    \/ VisibilityChange
    \/ VisibleResumeSettled
    \/ ContextSuspended
    \/ Settle
    \/ Timer
    \/ PageShow
    \/ ClickTick

InitClick == InitAt(PageLoadedAt)

SpecClick == InitClick /\ [][NextClick]_vars

IsClick(ev) == ev.e = "click"

\* C36: the click guard recovers.  When no startListening call is waiting,
\* isProcessingClick is false; and a click on Start or Stop that comes, with
\* no call waiting, at least MIN_CLICK_INTERVAL after the last accepted
\* click is processed.
C36_ClickGuardRecovers ==
    /\ startPc = "idle" => ~isProcessingClick
    /\ \A k \in 1..Len(history) :
          ( /\ IsClick(history[k])
            /\ ~history[k].pending
            /\ history[k].at - history[k].last >= MIN_CLICK_INTERVAL )
          => history[k].accepted

\* the guard after a startListening call alone: the call ended, listening or
\* failed, and left isProcessingClick false
C36_StartRecovers ==
    \A k \in 1..Len(history) :
        history[k].e \in {"listening", "failed"}
        => \/ ~isProcessingClick
           \/ \E j \in (k + 1)..Len(history) :
                 IsClick(history[j]) /\ history[j].accepted

(***************************************************************************)
(* The app module: the controls dialog and the gear icon.  A gear state g  *)
(* is controlsDialog.open, whether the icon has the class gear--hidden,    *)
(* and the deadline of the pending hide timer (NoTime when none pends).    *)
(***************************************************************************)
GearState(open, hidden, timer) == [open |-> open, hidden |-> hidden, timer |-> timer]

\* gearIcon.classList.remove('gear--hidden'); clearTimeout(gearHideTimer)
showGear(g) == [g EXCEPT !.hidden = FALSE, !.timer = NoTime]

\* mutation of scheduleGearHide: the timer is set whether or not the dialog
\* is open
scheduleGearHideAlways(g) == [g EXCEPT !.timer = now + GEAR_HIDE_DELAY]

\* clearTimeout, then setTimeout(hide, GEAR_HIDE_DELAY) when the dialog is
\* closed
scheduleGearHide(g) ==
    [g EXCEPT !.timer = IF ~g.open THEN now + GEAR_HIDE_DELAY ELSE NoTime]

updateGearVisibility(g) == IF g.open THEN showGear(g) ELSE scheduleGearHide(g)

\* controlsDialog.close() or showModal(), then updateGearVisibility()
toggleDialog(g) == updateGearVisibility([g EXCEPT !.open = ~g.open])

\* the gear state now
GearNow == GearState(dialogOpen, gearHidden, gearHideTimer)

\* the handler `what` ran: the gear state before it and after it, and for a
\* click on the gear icon the state toggleDialog left to the second listener
GearEvent(what, toggled, after) ==
    [e |-> "gear", what |-> what, at |-> now, before |-> GearNow,
     toggled |-> toggled, after |-> after]

\* the handler `what` takes the gear state to `after`
GearStep(what, toggled, after) ==
    /\ dialogOpen' = after.open
    /\ gearHidden' = after.hidden
    /\ gearHideTimer' = after.timer
    /\ history' = Append(history, GearEvent(what, toggled, after))
    /\ UNCHANGED <<tracker, previousRange, sequenceCounter, bootstrap, seq,
                   now, ticks, bodyColor, clickGuard, audioLoop>>

\* a click on the gear icon: its listeners toggleDialog and, registered
\* later, the one that calls showGear
GearIconClick ==
    /\ Len(history) < MaxAppEvents
    /\ GearStep("gearClick", toggleDialog(GearNow),
                showGear(toggleDialog(GearNow)))

\* a click on the dialog's close button
CloseButtonClick ==
    /\ Len(history) < MaxAppEvents
    /\ dialogOpen
    /\ GearStep("closeClick", GearNow,
                updateGearVisibility([GearNow EXCEPT !.open = FALSE]))

\* handleDialogClick: a click on the dialog element, inside its rectangle or
\* on the backdrop outside it
DialogClick ==
    /\ Len(history) < MaxAppEvents
    /\ dialogOpen
    /\ \E isInDialog \in BOOLEAN :
          GearStep("dialogClick", GearNow,
                   IF ~isInDialog
                   THEN updateGearVisibility([GearNow EXCEPT !.open = FALSE])
                   ELSE GearNow)

\* mouseenter on the hit area or on the gear icon
MouseEnter ==
    /\ Len(history) < MaxAppEvents
    /\ GearStep("mouseenter", GearNow, showGear(GearNow))

\* mouseleave from the hit area or from the gear icon
MouseLeave ==
    /\ Len(history) < MaxAppEvents
    /\ GearStep("mouseleave", GearNow, scheduleGearHide(GearNow))

\* click on the hit area
HitAreaClick ==
    /\ Len(history) < MaxAppEvents
    /\ GearStep("hitClick", GearNow, showGear(GearNow))

\* touchstart on the hit area or on the gear icon
TouchStart ==
    /\ Len(history) < MaxAppEvents
    /\ GearStep("touchstart", GearNow, showGear(GearNow))

\* touchend on the hit area
TouchEnd ==
    /\ Len(history) < MaxAppEvents
    /\ GearStep("touchend", GearNow, scheduleGearHide(GearNow))

\* the hide timer fires: gearIcon.classList.add('gear--hidden')
GearTimerFired ==
    /\ Len(history) < MaxAppEvents
    /\ gearHideTimer # NoTime
    /\ now >= gearHideTimer
    /\ GearStep("timer", GearNow,
                [GearNow EXCEPT !.hidden = TRUE, !.timer = NoTime])

\* time passes, by half the hide delay or by all of it
GearTick ==
    /\ ticks < MaxTicks
    /\ \E d \in {GEAR_HIDE_DELAY \div 2, GEAR_HIDE_DELAY} : now' = now + d
    /\ ticks' = ticks + 1
    /\ UNCHANGED <<tracker, previousRange, sequenceCounter, bootstrap, seq,
                   bodyColor, history, app>>

NextGear ==
    \/ GearIconClick
    \/ CloseButtonClick
    \/ DialogClick
    \/ MouseEnter
    \/ MouseLeave
    \/ HitAreaClick
    \/ TouchStart
    \/ TouchEnd
    \/ GearTimerFired
    \/ GearTick

SpecGear == Init /\ [][NextGear]_vars

IsGearEvent(ev) == ev.e = "gear"

\* C37: the gear icon is never hidden while the controls dialog is open.  A
\* hide timer pends only while the dialog is closed; and toggleDialog, when
\* it opens the dialog, leaves the gear shown and no hide timer pending,
\* whatever hover, touch, click and timer events came before.
C37_GearShownWhileDialogOpen ==
    /\ dialogOpen => ~gearHidden
    /\ gearHideTimer # NoTime => ~dialogOpen
    /\ \A k \in 1..Len(history) :
          (IsGearEvent(history[k]) /\ history[k].what = "gearClick"
             /\ history[k].toggled.open)
          => /\ ~history[k].before.open
             /\ ~history[k].toggled.hidden
             /\ history[k].toggled.timer = NoTime

\* C37 witness: the gear was hidden and a hide timer was pending again (the
\* timer had fired, then the pointer or the finger left the hit area) when
\* a click on the gear opened the dialog: the gear is shown, no timer pends.
C37_Witness ==
    /\ dialogOpen /\ ~gearHidden /\ gearHideTimer = NoTime
    /\ \E k \in 1..Len(history) :
          /\ IsGearEvent(history[k]) /\ history[k].what = "gearClick"
          /\ history[k].before.hidden
          /\ history[k].before.timer # NoTime
          /\ history[k].toggled.open
          /\ ~history[k].toggled.hidden

====
